---- MODULE Spec2Model ----
(***************************************************************************)
(* golightly: the lexical analyser (Lexer) and the recursive-descent       *)
(* parser (Parser) of a Go-like language.                                  *)
(*                                                                         *)
(* The lexer is modelled as operators on a lexer record: each operator is  *)
(* one method of Lexer and returns the updated record with the method's    *)
(* results.  A rune is a one-character string; the zero rune is NUL.  The   *)
(* input stream is a sequence of events: a rune, or IoErrMark for a read   *)
(* that fails with an error other than io.EOF; reading past the end gives  *)
(* io.EOF.  A method that cannot return (a loop whose guard never becomes  *)
(* false) has the outcome "hang"; a method that panics has the outcome     *)
(* "panic".                                                                *)
(***************************************************************************)
EXTENDS Integers, Sequences, FiniteSets, TLC

\* ------------------------------------------------------------------ runes

NUL == "NUL"
IoErrMark == "<read error>"

\* The backquote rune (a TLA+ string cannot hold the character itself).
BackQuote == "<backquote>"

Letters ==
  { "a", "b", "c", "d", "e", "f", "g", "h", "i", "j", "k", "l", "m",
    "n", "o", "p", "q", "r", "s", "t", "u", "v", "w", "x", "y", "z",
    "A", "B", "C", "D", "E", "F", "G", "H", "I", "J", "K", "L", "M",
    "N", "O", "P", "Q", "R", "S", "T", "U", "V", "W", "X", "Y", "Z" }

DigitRunes == { "0", "1", "2", "3", "4", "5", "6", "7", "8", "9" }

IsLetter(ch) == ch \in Letters

IsDigit(ch) == ch \in DigitRunes

CodePoints ==
  { <<" ", 32>>, <<"!", 33>>, <<"\"", 34>>, <<"#", 35>>, <<"$", 36>>, <<"%", 37>>, <<"&", 38>>, <<"'", 39>>,
    <<"(", 40>>, <<")", 41>>, <<"*", 42>>, <<"+", 43>>, <<",", 44>>, <<"-", 45>>, <<".", 46>>, <<"/", 47>>,
    <<"0", 48>>, <<"1", 49>>, <<"2", 50>>, <<"3", 51>>, <<"4", 52>>, <<"5", 53>>, <<"6", 54>>, <<"7", 55>>,
    <<"8", 56>>, <<"9", 57>>, <<":", 58>>, <<";", 59>>, <<"<", 60>>, <<"=", 61>>, <<">", 62>>, <<"?", 63>>,
    <<"@", 64>>, <<"A", 65>>, <<"B", 66>>, <<"C", 67>>, <<"D", 68>>, <<"E", 69>>, <<"F", 70>>, <<"G", 71>>,
    <<"H", 72>>, <<"I", 73>>, <<"J", 74>>, <<"K", 75>>, <<"L", 76>>, <<"M", 77>>, <<"N", 78>>, <<"O", 79>>,
    <<"P", 80>>, <<"Q", 81>>, <<"R", 82>>, <<"S", 83>>, <<"T", 84>>, <<"U", 85>>, <<"V", 86>>, <<"W", 87>>,
    <<"X", 88>>, <<"Y", 89>>, <<"Z", 90>>, <<"[", 91>>, <<"]", 93>>, <<"^", 94>>, <<"_", 95>>, <<BackQuote, 96>>,
    <<"a", 97>>, <<"b", 98>>, <<"c", 99>>, <<"d", 100>>, <<"e", 101>>, <<"f", 102>>, <<"g", 103>>, <<"h", 104>>,
    <<"i", 105>>, <<"j", 106>>, <<"k", 107>>, <<"l", 108>>, <<"m", 109>>, <<"n", 110>>, <<"o", 111>>, <<"p", 112>>,
    <<"q", 113>>, <<"r", 114>>, <<"s", 115>>, <<"t", 116>>, <<"u", 117>>, <<"v", 118>>, <<"w", 119>>, <<"x", 120>>,
    <<"y", 121>>, <<"z", 122>>, <<"{", 123>>, <<"|", 124>>, <<"}", 125>>, <<"~", 126>>, <<"\n", 10>>, <<"\t", 9>>,
    <<"\r", 13>> }

CodePoint(ch) == (CHOOSE e \in CodePoints : e[1] = ch)[2]

\* ------------------------------------------------------------- positions

SrcLoc(line, column) == [Line |-> line, Column |-> column]

SrcSpan(start, end) == [start |-> start, end |-> end]

NoSpan == SrcSpan(SrcLoc(0, 0), SrcLoc(0, 0))

\* ---------------------------------------------------------------- errors
\* An error value: nil, io.EOF, the reader's own error, or a diagnostic
\* made by NewError / errors.New (file, span, message, argument).

MkError(file, pos, msg, arg) == [file |-> file, pos |-> pos, msg |-> msg, arg |-> arg]

nil == MkError("", NoSpan, "nil", "")

EOF == MkError("", NoSpan, "EOF", "")

ErrRead == MkError("", NoSpan, "read error", "")

NewError(file, pos, msg) == MkError(file, pos, msg, "")

\* ---------------------------------------------------------------- tokens
\* Token is the sum of SimpleToken, StringToken, UintToken and FloatToken;
\* shape says which one a value is.  NilToken is the nil interface value.

MkToken(shape, pos, kind, strVal, uintVal, floatVal) ==
  [shape |-> shape, pos |-> pos, tt |-> kind,
   strVal |-> strVal, uintVal |-> uintVal, floatVal |-> floatVal]

NilToken == MkToken("nil", NoSpan, "nil", <<>>, 0, <<>>)

SimpleToken(pos, kind) == MkToken("SimpleToken", pos, kind, <<>>, 0, <<>>)

StringToken(pos, kind, strVal) == MkToken("StringToken", pos, kind, strVal, 0, <<>>)

UintToken(pos, kind, uintVal) == MkToken("UintToken", pos, kind, <<>>, uintVal, <<>>)

FloatToken(pos, kind, floatVal) == MkToken("FloatToken", pos, kind, <<>>, 0, floatVal)

keywords ==
  { <<<<"b", "r", "e", "a", "k">>, "TokenKindBreak">>,
    <<<<"c", "a", "s", "e">>, "TokenKindCase">>,
    <<<<"c", "h", "a", "n">>, "TokenKindChan">>,
    <<<<"c", "o", "n", "s", "t">>, "TokenKindConst">>,
    <<<<"c", "o", "n", "t", "i", "n", "u", "e">>, "TokenKindContinue">>,
    <<<<"d", "e", "f", "a", "u", "l", "t">>, "TokenKindDefault">>,
    <<<<"d", "e", "f", "e", "r">>, "TokenKindDefer">>,
    <<<<"e", "l", "s", "e">>, "TokenKindElse">>,
    <<<<"f", "a", "l", "l", "t", "h", "r", "o", "u", "g", "h">>, "TokenKindFallthrough">>,
    <<<<"f", "o", "r">>, "TokenKindFor">>,
    <<<<"f", "u", "n", "c">>, "TokenKindFunc">>,
    <<<<"g", "o">>, "TokenKindGo">>,
    <<<<"g", "o", "t", "o">>, "TokenKindGoto">>,
    <<<<"i", "f">>, "TokenKindIf">>,
    <<<<"i", "m", "p", "o", "r", "t">>, "TokenKindImport">>,
    <<<<"i", "n", "t", "e", "r", "f", "a", "c", "e">>, "TokenKindInterface">>,
    <<<<"m", "a", "p">>, "TokenKindMap">>,
    <<<<"p", "a", "c", "k", "a", "g", "e">>, "TokenKindPackage">>,
    <<<<"r", "a", "n", "g", "e">>, "TokenKindRange">>,
    <<<<"r", "e", "t", "u", "r", "n">>, "TokenKindReturn">>,
    <<<<"s", "e", "l", "e", "c", "t">>, "TokenKindSelect">>,
    <<<<"s", "t", "r", "u", "c", "t">>, "TokenKindStruct">>,
    <<<<"s", "w", "i", "t", "c", "h">>, "TokenKindSwitch">>,
    <<<<"t", "y", "p", "e">>, "TokenKindTypeKeyword">>,
    <<<<"v", "a", "r">>, "TokenKindVar">>,
    <<<<"b", "o", "o", "l">>, "TokenKindBool">>,
    <<<<"b", "y", "t", "e">>, "TokenKindByte">>,
    <<<<"c", "o", "m", "p", "l", "e", "x", "6", "4">>, "TokenKindComplex64">>,
    <<<<"c", "o", "m", "p", "l", "e", "x", "1", "2", "8">>, "TokenKindComplex128">>,
    <<<<"e", "r", "r", "o", "r">>, "TokenKindError">>,
    <<<<"f", "l", "o", "a", "t", "3", "2">>, "TokenKindFloat32">>,
    <<<<"f", "l", "o", "a", "t", "6", "4">>, "TokenKindFloat64">>,
    <<<<"i", "n", "t">>, "TokenKindInt">>,
    <<<<"i", "n", "t", "8">>, "TokenKindInt8">>,
    <<<<"i", "n", "t", "1", "6">>, "TokenKindInt16">>,
    <<<<"i", "n", "t", "3", "2">>, "TokenKindInt32">>,
    <<<<"i", "n", "t", "6", "4">>, "TokenKindInt64">>,
    <<<<"r", "u", "n", "e">>, "TokenKindRune">>,
    <<<<"s", "t", "r", "i", "n", "g">>, "TokenKindString">>,
    <<<<"u", "i", "n", "t">>, "TokenKindUint">>,
    <<<<"u", "i", "n", "t", "8">>, "TokenKindUint8">>,
    <<<<"u", "i", "n", "t", "1", "6">>, "TokenKindUint16">>,
    <<<<"u", "i", "n", "t", "3", "2">>, "TokenKindUint32">>,
    <<<<"u", "i", "n", "t", "6", "4">>, "TokenKindUint64">>,
    <<<<"u", "i", "n", "t", "p", "t", "r">>, "TokenKindUintPtr">> }

IsKeyword(word) == \E e \in keywords : e[1] = word

KeywordKind(word) == (CHOOSE e \in keywords : e[1] = word)[2]

\* ----------------------------------------------------------------- Lexer

ncNextRunesSize == 3

nextTokensSize == 2

SourceFileName == "main.go"

\* NewLexer / Init / LexReader: a fresh lexer over the stream `input`.
NewLexer(input) ==
  [ sourceFile      |-> SourceFileName,
    pos             |-> SrcSpan(SrcLoc(1, 1), SrcLoc(1, 1)),
    reader          |-> input,
    nextRune        |-> NUL,
    haveNextRune    |-> FALSE,
    longComment     |-> FALSE,
    prevStar        |-> FALSE,
    ncNextRunes     |-> [i \in 1..ncNextRunesSize |-> NUL],
    ncNextRuneCount |-> 0,
    nextTokens      |-> [i \in 1..nextTokensSize |-> NilToken],
    nextTokenCount  |-> 0 ]

RuneRes(l, r, err) == [l |-> l, r |-> r, err |-> err, hang |-> FALSE]

RuneHang(l) == [l |-> l, r |-> NUL, err |-> nil, hang |-> TRUE]

\* bufio.Reader.ReadRune on the stream.
ReadRune(l) ==
  IF l.reader = <<>> THEN RuneRes(l, NUL, EOF)
  ELSE IF Head(l.reader) = IoErrMark
       THEN RuneRes([l EXCEPT !.reader = Tail(@)], NUL, ErrRead)
       ELSE RuneRes([l EXCEPT !.reader = Tail(@)], Head(l.reader), nil)

getBufferedRune(l) ==
  IF l.haveNextRune
  THEN RuneRes([l EXCEPT !.haveNextRune = FALSE], l.nextRune, nil)
  ELSE ReadRune(l)

\* The shift loops of getUntrackedRune and GetToken:
\*   for i := count - 1; i > 0; i-- { a[i-1] = a[i] }
\* (a is 1-based here, so the assignment is a[i] = a[i+1]).
RECURSIVE shiftDown(_, _)
shiftDown(a, i) ==
  IF i > 0 THEN shiftDown([a EXCEPT ![i] = a[i + 1]], i - 1) ELSE a

\* The(S) is the element of a set S of one element.  "The({ e : x \in {v} })"
\* is e with x standing for v, and v is worked out once.
The(S) == CHOOSE x \in S : TRUE

\* The `//` case of getUntrackedRune: absorb the rest of the line.
RECURSIVE absorbLine(_)
absorbLine(l) ==
  The({ IF g.err # nil THEN RuneRes(g.l, NUL, g.err)
        ELSE IF g.r = "\n" THEN RuneRes(g.l, g.r, nil)
        ELSE absorbLine(g.l)
      : g \in {getBufferedRune(l)} })

\* A faulty `/` case of getUntrackedRune, to try C23 against: the `*` of an
\* opening `/*` is taken for a `*` read inside the comment.
SlashCase_pendingStar(g, g2) ==
  IF g2.err # nil
  THEN IF g2.err = EOF THEN RuneRes(g2.l, g.r, nil)
                       ELSE RuneRes(g2.l, NUL, g2.err)
  ELSE CASE g2.r = "/" -> absorbLine(g2.l)
         [] g2.r = "*" ->
              RuneRes([g2.l EXCEPT !.haveNextRune = TRUE,
                                   !.nextRune = "*",
                                   !.longComment = TRUE,
                                   !.prevStar = FALSE], " ", nil)
         [] OTHER ->
              RuneRes([g2.l EXCEPT !.haveNextRune = TRUE,
                                   !.nextRune = g2.r], g.r, nil)

\* getUntrackedRune, from the second read of the `/` case on: g is the read
\* of the '/', g2 the read of the rune after it.
SlashCase(g, g2) ==
  IF g2.err # nil
  THEN IF g2.err = EOF THEN RuneRes(g2.l, g.r, nil)
                       ELSE RuneRes(g2.l, NUL, g2.err)
  ELSE CASE g2.r = "/" -> absorbLine(g2.l)
         [] g2.r = "*" ->
              RuneRes([g2.l EXCEPT !.haveNextRune = TRUE,
                                   !.nextRune = " ",
                                   !.longComment = TRUE,
                                   !.prevStar = FALSE], " ", nil)
         [] OTHER ->
              RuneRes([g2.l EXCEPT !.haveNextRune = TRUE,
                                   !.nextRune = g2.r], g.r, nil)

\* A faulty getUntrackedRune, to try C24 against: inside a block comment a
\* `*` is dropped and the rune after it is looked at in its place.
RECURSIVE FilterComment_dropsStar(_)
FilterComment_dropsStar(g) ==
  IF g.err # nil THEN RuneRes(g.l, NUL, g.err)
  ELSE IF ~ g.l.longComment
  THEN IF g.r = "/" THEN SlashCase(g, getBufferedRune(g.l))
       ELSE RuneRes(g.l, g.r, nil)
  ELSE
    CASE g.r = "\n" -> RuneRes([g.l EXCEPT !.prevStar = FALSE], g.r, nil)
      [] g.r = "*"  -> FilterComment_dropsStar(getBufferedRune([g.l EXCEPT !.prevStar = TRUE]))
      [] g.r = "/"  -> RuneRes([g.l EXCEPT !.longComment = IF g.l.prevStar THEN FALSE ELSE @],
                               " ", nil)
      [] OTHER      -> RuneRes([g.l EXCEPT !.prevStar = FALSE], " ", nil)

\* getUntrackedRune, from the error check after the first read on.
FilterComment(g) ==
  IF g.err # nil THEN RuneRes(g.l, NUL, g.err)
  ELSE IF ~ g.l.longComment
  THEN IF g.r = "/" THEN SlashCase(g, getBufferedRune(g.l))
       ELSE RuneRes(g.l, g.r, nil)
  ELSE
    CASE g.r = "\n" -> RuneRes([g.l EXCEPT !.prevStar = FALSE], g.r, nil)
      [] g.r = "*"  -> RuneRes([g.l EXCEPT !.prevStar = TRUE], " ", nil)
      [] g.r = "/"  -> RuneRes([g.l EXCEPT !.longComment = IF g.l.prevStar THEN FALSE ELSE @],
                               " ", nil)
      [] OTHER      -> RuneRes([g.l EXCEPT !.prevStar = FALSE], " ", nil)

getUntrackedRune(l) ==
  IF l.ncNextRuneCount > 0
  THEN RuneRes([l EXCEPT !.ncNextRunes = shiftDown(@, l.ncNextRuneCount - 1),
                         !.ncNextRuneCount = @ - 1],
               l.ncNextRunes[1], nil)
  ELSE FilterComment(getBufferedRune(l))

\* getRune, from the error check on: count columns and lines.
CountRune(g) ==
  IF g.err # nil THEN RuneRes(g.l, NUL, g.err)
  ELSE IF g.r = "\n"
       THEN RuneRes([g.l EXCEPT !.pos.end = SrcLoc(@.Line + 1, 1)], g.r, nil)
       ELSE RuneRes([g.l EXCEPT !.pos.end.Column = @ + 1], g.r, nil)

getRune(l) == CountRune(getUntrackedRune(l))

\* A faulty peekRune, to try C21 against: it reads the rune and hands it out
\* with no entry made in the lookahead queue.
peekRune_consuming(l, ahead) == getRune(l)

\* peekRune: for l.ncNextRuneCount <= ahead { r, err := l.getRune(); ... }.
\* An iteration entered with a rune already queued takes that rune back
\* out of the queue (getUntrackedRune's first branch, which cannot fail)
\* and appends it again: the count is the same after the iteration as
\* before it, so the guard stays true and the loop never ends.
RECURSIVE peekRune(_, _)
peekRune(l, ahead) ==
  IF l.ncNextRuneCount > ahead THEN RuneRes(l, l.ncNextRunes[ahead + 1], nil)
  ELSE IF l.ncNextRuneCount > 0 THEN RuneHang(l)
  ELSE
    The({ IF g.err # nil THEN RuneRes(g.l, NUL, g.err)
          ELSE peekRune([g.l EXCEPT !.ncNextRunes[g.l.ncNextRuneCount + 1] = g.r,
                                    !.ncNextRuneCount = @ + 1], ahead)
        : g \in {getRune(l)} })

\* tossRunes, as lexToken uses it: the error is dropped by the caller.
RECURSIVE tossRunes(_, _)
tossRunes(l, howMany) ==
  IF howMany <= 0 THEN l
  ELSE The({ IF g.err # nil THEN g.l ELSE tossRunes(g.l, howMany - 1)
           : g \in {getRune(l)} })

IsWhitespace(ch) == ch \in {" ", "\t", "\r", "\n"}

\* skipWhitespace returns the lexer and the error.
RECURSIVE skipWhitespace(_)
skipWhitespace(l) ==
  The({ IF p.err # nil
        THEN IF p.err = EOF THEN [l |-> p.l, err |-> nil] ELSE [l |-> p.l, err |-> p.err]
        ELSE IF ~ IsWhitespace(p.r) THEN [l |-> p.l, err |-> nil]
        ELSE skipWhitespace(getRune(p.l).l)
      : p \in {peekRune(l, 0)} })

\* ------------------------------------------------------- numeric parsing
\* strconv.ParseUint(word, 10, 64) and strconv.ParseFloat(word, 128) on the
\* words getNumeric can build (digits, '.' and 'e' only).  A float value is
\* kept as its literal text.  Integer literals of more than nine digits are
\* outside what TLC's integers can hold and are not part of any input set.

DigitValue(ch) == CodePoint(ch) - CodePoint("0")

RECURSIVE DecValue(_)
DecValue(word) ==
  IF word = <<>> THEN 0
  ELSE 10 * DecValue(SubSeq(word, 1, Len(word) - 1)) + DigitValue(word[Len(word)])

RECURSIVE StripZeros(_)
StripZeros(word) ==
  IF Len(word) > 1 /\ Head(word) = "0" THEN StripZeros(Tail(word)) ELSE word

AllDigits(word) == \A i \in 1..Len(word) : IsDigit(word[i])

ParseUint(word) ==
  IF word = <<>> \/ ~ AllDigits(word)
  THEN [v |-> 0, err |-> "strconv.ParseUint: invalid syntax"]
  ELSE IF Len(StripZeros(word)) > 20
  THEN [v |-> 0, err |-> "strconv.ParseUint: value out of range"]
  ELSE [v |-> DecValue(StripZeros(word)), err |-> "nil"]

FloatSyntaxOK(word) ==
  LET es   == {i \in 1..Len(word) : word[i] = "e"}
      ePos == IF es = {} THEN Len(word) + 1 ELSE CHOOSE i \in es : TRUE
      mant == SubSeq(word, 1, ePos - 1)
      exp  == SubSeq(word, ePos + 1, Len(word))
  IN  /\ Cardinality(es) <= 1
      /\ Cardinality({i \in 1..Len(mant) : mant[i] = "."}) <= 1
      /\ \E i \in 1..Len(mant) : IsDigit(mant[i])
      /\ es # {} => exp # <<>> /\ AllDigits(exp)

ParseFloat(word) ==
  IF FloatSyntaxOK(word)
  THEN [v |-> word, err |-> "nil"]
  ELSE [v |-> <<>>, err |-> "strconv.ParseFloat: invalid syntax"]

\* ------------------------------------------------------------ tokenizing

TokRes(l, tok, err) == [l |-> l, tok |-> tok, err |-> err, out |-> "return"]

TokHang(l) == [l |-> l, tok |-> NilToken, err |-> nil, out |-> "hang"]

TokPanic(l) == [l |-> l, tok |-> NilToken, err |-> nil, out |-> "panic"]

OpRes(l, kind, runes) == [l |-> l, kind |-> kind, runes |-> runes, isOp |-> TRUE, hang |-> FALSE]

OpHang(l) == [l |-> l, kind |-> "nil", runes |-> 0, isOp |-> FALSE, hang |-> TRUE]

NotOp(l) == [l |-> l, kind |-> "nil", runes |-> 0, isOp |-> FALSE, hang |-> FALSE]

\* getOperator: the hard-coded trie.  `ch2, _ := l.peekRune(1)` drops the
\* error, so ch2 is the zero rune when the peek fails.
\* The third rune of `<<` / `<<=` and `>>` / `>>=`.
ShiftOperator(p3, assignKind, shiftKind) ==
  IF p3.hang THEN OpHang(p3.l)
  ELSE IF p3.r = "=" THEN OpRes(p3.l, assignKind, 3)
                     ELSE OpRes(p3.l, shiftKind, 2)

\* The trie below its first rune: p2 is what peekRune(1) gave.
OperatorAfter(l, ch, p2, ch2, l2) ==
  CASE ch = "+" ->
         IF p2.hang THEN OpHang(l2)
         ELSE CASE ch2 = "=" -> OpRes(l2, "TokenKindAddAssign", 2)
                [] ch2 = "+" -> OpRes(l2, "TokenKindIncrement", 2)
                [] OTHER     -> OpRes(l2, "TokenKindAdd", 1)
    [] ch = "-" ->
         IF p2.hang THEN OpHang(l2)
         ELSE CASE ch2 = "=" -> OpRes(l2, "TokenKindSubtractAssign", 2)
                [] ch2 = "-" -> OpRes(l2, "TokenKindDecrement", 2)
                [] OTHER     -> OpRes(l2, "TokenKindSubtract", 1)
    [] ch = "*" ->
         IF p2.hang THEN OpHang(l2)
         ELSE IF ch2 = "=" THEN OpRes(l2, "TokenKindMultiplyAssign", 2)
                           ELSE OpRes(l2, "TokenKindAsterisk", 1)
    [] ch = "/" ->
         IF p2.hang THEN OpHang(l2)
         ELSE IF ch2 = "=" THEN OpRes(l2, "TokenKindDivideAssign", 2)
                           ELSE OpRes(l2, "TokenKindDivide", 1)
    [] ch = "%" ->
         IF p2.hang THEN OpHang(l2)
         ELSE IF ch2 = "=" THEN OpRes(l2, "TokenKindModulusAssign", 2)
                           ELSE OpRes(l2, "TokenKindModulus", 1)
    [] ch = "&" ->
         IF p2.hang THEN OpHang(l2)
         ELSE CASE ch2 = "=" -> OpRes(l2, "TokenKindBitwiseAndAssign", 2)
                [] ch2 = "&" -> OpRes(l2, "TokenKindLogicalAnd", 2)
                [] OTHER     -> OpRes(l2, "TokenKindBitwiseAnd", 1)
    [] ch = "|" ->
         IF p2.hang THEN OpHang(l2)
         ELSE CASE ch2 = "=" -> OpRes(l2, "TokenKindBitwiseOrAssign", 2)
                [] ch2 = "|" -> OpRes(l2, "TokenKindLogicalOr", 2)
                [] OTHER     -> OpRes(l2, "TokenKindBitwiseOr", 1)
    [] ch = "^" ->
         IF p2.hang THEN OpHang(l2)
         ELSE IF ch2 = "=" THEN OpRes(l2, "TokenKindBitwiseExorAssign", 2)
                           ELSE OpRes(l2, "TokenKindBitwiseExor", 1)
    [] ch = "<" ->
         IF p2.hang THEN OpHang(l2)
         ELSE CASE ch2 = "<" ->
                     ShiftOperator(peekRune(l2, 2), "TokenKindShiftLeftAssign", "TokenKindShiftLeft")
                [] ch2 = "=" -> OpRes(l2, "TokenKindLessEqual", 2)
                [] ch2 = "-" -> OpRes(l2, "TokenKindChannelArrow", 2)
                [] OTHER     -> OpRes(l2, "TokenKindLess", 1)
    [] ch = ">" ->
         IF p2.hang THEN OpHang(l2)
         ELSE CASE ch2 = ">" ->
                     ShiftOperator(peekRune(l2, 2), "TokenKindShiftRightAssign", "TokenKindShiftRight")
                [] ch2 = "=" -> OpRes(l2, "TokenKindGreaterEqual", 2)
                [] OTHER     -> OpRes(l2, "TokenKindGreater", 1)
    [] ch = "=" ->
         IF p2.hang THEN OpHang(l2)
         ELSE IF ch2 = "=" THEN OpRes(l2, "TokenKindEquals", 2)
                           ELSE OpRes(l2, "TokenKindAssign", 1)
    [] ch = "!" ->
         IF p2.hang THEN OpHang(l2)
         ELSE IF ch2 = "=" THEN OpRes(l2, "TokenKindNotEqual", 2)
                           ELSE OpRes(l2, "TokenKindNot", 1)
    [] ch = ":" ->
         IF p2.hang THEN OpHang(l2)
         ELSE IF ch2 = "=" THEN OpRes(l2, "TokenKindDeclareAssign", 2)
                           ELSE OpRes(l2, "TokenKindColon", 1)
    [] ch = "." -> OpRes(l, "TokenKindDot", 1)
    [] ch = "," -> OpRes(l, "TokenKindComma", 1)
    [] ch = "(" -> OpRes(l, "TokenKindOpenBracket", 1)
    [] ch = ")" -> OpRes(l, "TokenKindCloseBracket", 1)
    [] ch = "[" -> OpRes(l, "TokenKindOpenSquareBracket", 1)
    [] ch = "]" -> OpRes(l, "TokenKindCloseSquareBracket", 1)
    [] ch = "{" -> OpRes(l, "TokenKindOpenBrace", 1)
    [] ch = "}" -> OpRes(l, "TokenKindCloseBrace", 1)
    [] ch = ";" -> OpRes(l, "TokenKindSemicolon", 1)
    [] OTHER    -> NotOp(l)

\* The first runes whose case begins with `ch2, _ := l.peekRune(1)`.
PeekingOperators == {"+", "-", "*", "/", "%", "&", "|", "^", "<", ">", "=", "!", ":"}

getOperator(l, ch) ==
  IF ch \in PeekingOperators
  THEN The({ OperatorAfter(l, ch, p2, p2.r, p2.l) : p2 \in {peekRune(l, 1)} })
  ELSE OperatorAfter(l, ch, RuneRes(l, NUL, nil), NUL, l)

\* getWord: the loop, with the word built so far.
RECURSIVE getWordFrom(_, _)
getWordFrom(l, word) ==
  The({ IF p.err # nil THEN [l |-> p.l, word |-> word]
        ELSE IF ~ IsLetter(p.r) /\ p.r # "_" THEN [l |-> p.l, word |-> word]
        ELSE getWordFrom(getRune(p.l).l, Append(word, p.r))
      : p \in {peekRune(l, 0)} })

getWord(l) == getWordFrom(l, <<>>)

\* getNumeric: the scanning loop, then the conversion.
RECURSIVE getNumericFrom(_, _, _)
getNumericFrom(l, word, isFloat) ==
  The({ IF p.err # nil THEN [l |-> p.l, word |-> word, isFloat |-> isFloat]
        ELSE IF ~ IsDigit(p.r) /\ p.r # "." /\ p.r # "e"
        THEN [l |-> p.l, word |-> word, isFloat |-> isFloat]
        ELSE getNumericFrom(getRune(p.l).l, Append(word, p.r),
                            isFloat \/ p.r = "." \/ p.r = "e")
      : p \in {peekRune(l, 0)} })

\* getNumeric after the scan: c is what strconv made of the word.
NumericToken(l, isFloat, c) ==
  IF c.err # "nil" THEN TokRes(l, NilToken, NewError(l.sourceFile, l.pos, c.err))
  ELSE IF isFloat THEN TokRes(l, FloatToken(l.pos, "TokenKindLiteralFloat", c.v), nil)
                  ELSE TokRes(l, UintToken(l.pos, "TokenKindLiteralInt", c.v), nil)

getNumeric(l) ==
  The({ NumericToken(s.l, s.isFloat,
                     IF s.isFloat THEN ParseFloat(s.word) ELSE ParseUint(s.word))
      : s \in {getNumericFrom(l, <<>>, FALSE)} })

\* A faulty loop of getStringLiteralSimple, to try C13 against: at an error
\* of getRune it returns what it has got as the string.
RECURSIVE getStringBody_lenient(_, _, _)
getStringBody_lenient(l, quote, str) ==
  The({ IF g.err # nil \/ g.r = quote THEN [l |-> g.l, str |-> str, err |-> nil]
        ELSE getStringBody_lenient(g.l, quote, Append(str, g.r))
      : g \in {getRune(l)} })

\* getStringLiteralSimple: the loop after the opening quote.
RECURSIVE getStringBody(_, _, _)
getStringBody(l, quote, str) ==
  The({ IF g.err # nil
        THEN [l |-> g.l, str |-> <<>>,
              err |-> NewError(g.l.sourceFile, g.l.pos, "no closing quote")]
        ELSE IF g.r = quote THEN [l |-> g.l, str |-> str, err |-> nil]
        ELSE getStringBody(g.l, quote, Append(str, g.r))
      : g \in {getRune(l)} })

getStringLiteralSimple(l) ==
  The({ getStringBody(q.l, q.r, <<>>) : q \in {getRune(l)} })

getRuneLiteral(l) ==
  The({ IF s.err # nil THEN TokRes(s.l, NilToken, s.err)
        ELSE IF Len(s.str) # 1
        THEN TokRes(s.l, NilToken,
                    NewError(s.l.sourceFile, s.l.pos, "this rune should be a single character"))
        ELSE TokRes(s.l, UintToken(s.l.pos, "TokenKindLiteralRune", CodePoint(s.str[1])), nil)
      : s \in {getStringLiteralSimple(l)} })

getStringLiteral(l) ==
  The({ IF s.err # nil THEN TokRes(s.l, NilToken, s.err)
        ELSE TokRes(s.l, StringToken(s.l.pos, "TokenKindLiteralString", s.str), nil)
      : s \in {getStringLiteralSimple(l)} })

\* lexToken at an operator or a literal: o is what getOperator gave.
OperatorToken(o, ch) ==
  IF o.hang THEN TokHang(o.l)
  ELSE IF o.isOp
  THEN The({ TokRes(t, SimpleToken(t.pos, o.kind), nil) : t \in {tossRunes(o.l, o.runes)} })
  ELSE CASE ch = "'" -> getRuneLiteral(o.l)
         [] ch \in {"\"", BackQuote} -> getStringLiteral(o.l)
         [] OTHER -> TokRes(o.l, NilToken, MkError("", NoSpan, "illegal character", ch))

\* lexToken at a rune that starts no word and is no digit: d is the peek at
\* the rune after a '.'.
PunctuationToken(d, ch) ==
  IF d.hang THEN TokHang(d.l)
  ELSE IF ch = "." /\ IsDigit(d.r) THEN getNumeric(d.l)
  ELSE OperatorToken(getOperator(d.l, ch), ch)

WordToken(w) ==
  IF IsKeyword(w.word)
  THEN TokRes(w.l, SimpleToken(w.l.pos, KeywordKind(w.word)), nil)
  ELSE TokRes(w.l, StringToken(w.l.pos, "TokenKindIdentifier", w.word), nil)

\* lexToken from the peek at the first rune of the token on.
TokenAt(p, ch) ==
  IF p.err # nil THEN TokRes(p.l, NilToken, p.err)
  ELSE IF IsLetter(ch) \/ ch = "_" THEN WordToken(getWord(p.l))
  ELSE IF IsDigit(ch) THEN getNumeric(p.l)
  ELSE PunctuationToken(IF ch = "." THEN peekRune(p.l, 1) ELSE RuneRes(p.l, NUL, nil), ch)

lexToken(l) ==
  The({ IF s.err # nil THEN TokRes(s.l, NilToken, s.err)
        ELSE The({ TokenAt(p, p.r)
                 : p \in {peekRune([s.l EXCEPT !.pos.start = s.l.pos.end], 0)} })
      : s \in {skipWhitespace(l)} })

\* A faulty GetToken, to try C7 against: it hands out the front of the
\* lookahead queue and leaves the queue as it is.
GetToken_noShift(l) ==
  IF l.nextTokenCount > 0 THEN TokRes(l, l.nextTokens[1], nil) ELSE lexToken(l)

GetToken(l) ==
  IF l.nextTokenCount > 0
  THEN TokRes([l EXCEPT !.nextTokens =
                           [shiftDown(@, l.nextTokenCount - 1) EXCEPT ![l.nextTokenCount] = NilToken],
                        !.nextTokenCount = @ - 1],
              l.nextTokens[1], nil)
  ELSE lexToken(l)

\* PeekToken: for l.nextTokenCount <= ahead { t, err := l.lexToken(); ... }.
\* Storing into l.nextTokens[l.nextTokenCount] panics (index out of range)
\* once the count has reached nextTokensSize.
RECURSIVE PeekToken(_, _)
PeekToken(l, ahead) ==
  IF l.nextTokenCount > ahead THEN TokRes(l, l.nextTokens[ahead + 1], nil)
  ELSE
    The({ IF t.out # "return" THEN t
          ELSE IF t.err # nil THEN TokRes(t.l, NilToken, t.err)
          ELSE IF t.l.nextTokenCount >= nextTokensSize THEN TokPanic(t.l)
          ELSE PeekToken([t.l EXCEPT !.nextTokens[t.l.nextTokenCount + 1] = t.tok,
                                     !.nextTokenCount = @ + 1], ahead)
        : t \in {lexToken(l)} })

\* ------------------------------------------------------------------- AST

NilAST == [node |-> "nil"]

ASTIdentifier(pos, packageName, name) ==
  [node |-> "ASTIdentifier", pos |-> pos, packageName |-> packageName, name |-> name]

ASTDataType(pos, name) == [node |-> "ASTDataType", pos |-> pos, name |-> name]

ASTDataTypeDecl(ident, typ) == [node |-> "ASTDataTypeDecl", ident |-> ident, typ |-> typ]

ASTParameterDecl(ident, typ) == [node |-> "ASTParameterDecl", ident |-> ident, typ |-> typ]

ASTEllipsis(pos) == [node |-> "ASTEllipsis", pos |-> pos]

ASTReceiver(pos, ident, pointer, baseTypeName) ==
  [node |-> "ASTReceiver", pos |-> pos, ident |-> ident, pointer |-> pointer,
   baseTypeName |-> baseTypeName]

ASTImport(pos, ident, value) ==
  [node |-> "ASTImport", pos |-> pos, ident |-> ident, value |-> value]

ASTFunctionDecl(pos, name, receiver, params, returns, body) ==
  [node |-> "ASTFunctionDecl", pos |-> pos, name |-> name, receiver |-> receiver,
   params |-> params, returns |-> returns, body |-> body]

ASTTopLevel(packageName, imports, topLevelDecls) ==
  [node |-> "ASTTopLevel", packageName |-> packageName, imports |-> imports,
   topLevelDecls |-> topLevelDecls]

importMessage(path, file, pos) == [path |-> path, file |-> file, pos |-> pos]

\* ----------------------------------------------------------------- state

VARIABLES
  input,    \* the stream the lexer reads
  lx,       \* the Lexer
  client,   \* a caller of the pull interface: its calls and what they returned
  pc,       \* Parser: the statement the parse is at
  stack,    \* Parser: the return addresses of the productions being parsed
  loc,      \* Parser: the local variables of the productions
  ret,      \* Parser: what the production that returned last has returned
  status,   \* Parser: "idle", "running", "returned", "panic" or "hung"
  result,   \* Parser: the error Parse returned
  sent,     \* the importMessages sent on sf.addImport
  obs       \* observations: the method called, the first error detected,
            \* the tokens taken

parserVars == <<pc, stack, loc, ret, status, result, sent, obs>>

vars == <<input, lx, client, pc, stack, loc, ret, status, result, sent, obs>>

\* ---------------------------------------------------------------- Parser
\* Each action is the code of one production from one call of the lexer (or
\* of another production) to the next.  NewParser never sets p.filename, so
\* every diagnostic of the parser carries the empty file name.

filename == ""

Pos(tok) == tok.pos

\* SrcSpan.Add: the span that bounds both spans.
LocBefore(a, b) == a.Line < b.Line \/ (a.Line = b.Line /\ a.Column <= b.Column)

Add(s, t) ==
  SrcSpan(IF LocBefore(s.start, t.start) THEN s.start ELSE t.start,
          IF LocBefore(s.end, t.end) THEN t.end ELSE s.end)

\* The first error detected so far, the number of tokens GetToken has
\* handed to the parser, and what that number was when the error came up;
\* the tokens handed over, in order; the places of the lookahead queue
\* whose token PeekToken has shown to the parser (0 is the next token of
\* the stream); and whether a GetToken whose result is dropped has removed
\* a token that PeekToken had not shown.
Noted(o, e) ==
  IF o.firstErr = nil /\ e # nil
  THEN [o EXCEPT !.firstErr = e, !.takenAtErr = o.taken]
  ELSE o

Taken(g, o) ==
  [l |-> g.l, tok |-> g.tok, err |-> g.err, out |-> g.out,
   obs |-> IF g.out = "return" /\ g.err = nil
           THEN [o EXCEPT !.taken = @ + 1,
                          !.handed = Append(@, g.tok),
                          !.seen = { i - 1 : i \in @ \ {0} }]
           ELSE Noted(o, g.err)]

Get(l, o) == Taken(GetToken(l), o)

\* p.lexer.GetToken() as a statement: the token, if one comes, is dropped.
Dropped(g, o) ==
  [l |-> g.l, tok |-> g.tok, err |-> g.err, out |-> g.out,
   obs |-> IF g.out = "return" /\ g.err = nil /\ 0 \notin o.seen
           THEN [g.obs EXCEPT !.blind = TRUE]
           ELSE g.obs]

Skip(l, o) == Dropped(Get(l, o), o)

Peeked(g, o, ahead) ==
  [l |-> g.l, tok |-> g.tok, err |-> g.err, out |-> g.out,
   obs |-> IF g.out = "return" /\ g.err = nil
           THEN [o EXCEPT !.seen = @ \cup {ahead}]
           ELSE Noted(o, g.err)]

Peek(l, o, ahead) == Peeked(PeekToken(l, ahead), o, ahead)

\* expectTokenPos (and expectToken, which drops the position).  On an error
\* of GetToken tok is nil and tok.Pos() panics.
Expected(g, tk, message) ==
  IF g.out # "return"
  THEN [l |-> g.l, obs |-> g.obs, pos |-> NoSpan, err |-> nil, out |-> g.out]
  ELSE IF g.err # nil
  THEN [l |-> g.l, obs |-> g.obs, pos |-> NoSpan, err |-> nil, out |-> "panic"]
  ELSE IF g.tok.tt # tk
  THEN [l |-> g.l, obs |-> Noted(g.obs, NewError(filename, Pos(g.tok), message)),
        pos |-> Pos(g.tok), err |-> NewError(filename, Pos(g.tok), message), out |-> "return"]
  ELSE [l |-> g.l, obs |-> g.obs, pos |-> Pos(g.tok), err |-> nil, out |-> "return"]

expectTokenPos(l, o, tk, message) == Expected(Get(l, o), tk, message)

\* What a production returns: the named results of its Go signature.
Returns(err, asts, more, astv, str, match) ==
  [err |-> err, asts |-> asts, more |-> more, ast |-> astv, str |-> str, match |-> match]

RetErr(e) == Returns(e, <<>>, <<>>, NilAST, <<>>, FALSE)

RetASTs(asts) == Returns(nil, asts, <<>>, NilAST, <<>>, FALSE)

RetAST(a) == Returns(nil, <<>>, <<>>, a, <<>>, FALSE)

RetMatch(err, asts, astv, match) == Returns(err, asts, <<>>, astv, <<>>, match)

NoLocals ==
  [ ast         |-> ASTTopLevel(<<>>, <<>>, <<>>),   \* parseSourceFile
    nextToken   |-> NilToken,                        \* parseImportSpec
    parseSpec   |-> "",                              \* parseDecl, parseGroupMulti
    verbName    |-> "",
    gsAsts      |-> <<>>,                            \* parseGroupSingle
    gmAsts      |-> <<>>,                            \* parseGroupMulti
    identList   |-> <<>>,                            \* parseConstSpec, parseVarSpec
    identAST    |-> NilAST,                          \* parseTypeSpec
    identDesc   |-> "",                              \* parseIdentifierList
    asts        |-> <<>>,
    funcToken   |-> NilToken,                        \* parseFunctionDecl
    tok         |-> NilToken,
    receiver    |-> NilAST,
    funcName    |-> <<>>,
    bracketPos  |-> NoSpan,                          \* parseReceiver
    recvTok     |-> NilToken,
    ident       |-> <<>>,
    params      |-> <<>>,                            \* parseBracketedParameterList
    idents      |-> <<>>,                            \* parseParameterDecl
    typeToken   |-> NilToken ]

Running(label) == status = "running" /\ pc = label

Do(l, o, nextPc, nextStack, nextLoc, nextRet) ==
  /\ lx' = l
  /\ obs' = o
  /\ pc' = nextPc
  /\ stack' = nextStack
  /\ loc' = nextLoc
  /\ ret' = nextRet
  /\ UNCHANGED <<input, client, status, result, sent>>

Jump(l, o, nextPc, nextLoc) == Do(l, o, nextPc, stack, nextLoc, ret)

CallProduction(l, o, production, returnTo, nextLoc) ==
  Do(l, o, production, <<returnTo>> \o stack, nextLoc, ret)

Return(l, o, r) == Do(l, o, Head(stack), Tail(stack), loc, r)

\* Parse returns e to its caller.
Finish(l, o, e) ==
  /\ lx' = l
  /\ obs' = o
  /\ status' = "returned"
  /\ result' = e
  /\ UNCHANGED <<input, client, pc, stack, loc, ret, sent>>

\* The parse does not return: a panic, or a lexer call that never ends.
Stop(l, o, out) ==
  /\ lx' = l
  /\ obs' = o
  /\ status' = (IF out = "hang" THEN "hung" ELSE "panic")
  /\ UNCHANGED <<input, client, pc, stack, loc, ret, result, sent>>

\* Parse / parseSourceFile -------------------------------------------------

Parse ==
  /\ status = "idle"
  /\ status' = "running"
  /\ pc' = "parseSourceFile"
  /\ obs' = [obs EXCEPT !.entry = "Parse"]
  /\ UNCHANGED <<input, lx, client, stack, loc, ret, result, sent>>

parseSourceFile ==
  /\ Running("parseSourceFile")
  /\ CallProduction(lx, obs, "parsePackage", "parseSourceFile_semicolon",
                    [loc EXCEPT !.ast = ASTTopLevel(<<>>, <<>>, <<>>)])

parseSourceFile_semicolon ==
  /\ Running("parseSourceFile_semicolon")
  /\ IF ret.err # nil THEN Finish(lx, obs, ret.err)
     ELSE \E x \in {expectTokenPos(lx, obs, "TokenKindSemicolon",
                     "I'm gonna be needing a semicolon after this 'package' declaration")} :
             IF x.out # "return" THEN Stop(x.l, x.obs, x.out)
             ELSE IF x.err # nil THEN Finish(x.l, x.obs, x.err)
             ELSE Jump(x.l, x.obs, "parseSourceFile_imports",
                       [loc EXCEPT !.ast.packageName = ret.str])

parseSourceFile_imports ==
  /\ Running("parseSourceFile_imports")
  /\ \E t \in {Peek(lx, obs, 0)} :
     IF t.out # "return" THEN Stop(t.l, t.obs, t.out)
     ELSE IF t.err # nil THEN Finish(t.l, t.obs, t.err)
     ELSE IF t.tok.tt = "TokenKindImport"
     THEN Jump(t.l, t.obs, "parseSourceFile_import", loc)
     ELSE Jump(t.l, t.obs, "parseSourceFile_decls", loc)

parseSourceFile_import ==
  /\ Running("parseSourceFile_import")
  /\ CallProduction(lx, obs, "parseImport", "parseSourceFile_importSemicolon", loc)

parseSourceFile_importSemicolon ==
  /\ Running("parseSourceFile_importSemicolon")
  /\ IF ret.err # nil THEN Finish(lx, obs, ret.err)
     ELSE \E x \in {expectTokenPos(lx, obs, "TokenKindSemicolon",
                     "I'm gonna be needing a semicolon after this 'import' declaration")} :
             IF x.out # "return" THEN Stop(x.l, x.obs, x.out)
             ELSE IF x.err # nil THEN Finish(x.l, x.obs, x.err)
             ELSE Jump(x.l, x.obs, "parseSourceFile_import",
                       [loc EXCEPT !.ast.imports = @ \o ret.asts])

parseSourceFile_decls ==
  /\ Running("parseSourceFile_decls")
  /\ \E t \in {Peek(lx, obs, 0)} :
     IF t.out # "return" THEN Stop(t.l, t.obs, t.out)
     ELSE IF t.err # nil THEN Finish(t.l, t.obs, t.err)
     ELSE Jump(t.l, t.obs, "parseSourceFile_decl", loc)

parseSourceFile_decl ==
  /\ Running("parseSourceFile_decl")
  /\ CallProduction(lx, obs, "parseTopLevelDecl", "parseSourceFile_declSemicolon", loc)

\* The rest of the declaration loop: the error check, the break when no
\* declaration matched (followed by the end-of-source check), the semicolon.
parseSourceFile_declSemicolon ==
  /\ Running("parseSourceFile_declSemicolon")
  /\ IF ret.err # nil THEN Finish(lx, obs, ret.err)
     ELSE IF ~ ret.match
     THEN \E x \in {expectTokenPos(lx, obs, "TokenKindEndOfSource",
                     "I don't really know what this is or why it's here")} :
             IF x.out # "return" THEN Stop(x.l, x.obs, x.out)
             ELSE Finish(x.l, x.obs, x.err)
     ELSE \E x \in {expectTokenPos(lx, obs, "TokenKindSemicolon", "I need a semicolon here")} :
             IF x.out # "return" THEN Stop(x.l, x.obs, x.out)
             ELSE IF x.err # nil THEN Finish(x.l, x.obs, x.err)
             ELSE Jump(x.l, x.obs, "parseSourceFile_decl",
                       [loc EXCEPT !.ast.topLevelDecls = @ \o ret.asts])

\* parsePackage ------------------------------------------------------------

parsePackage ==
  /\ Running("parsePackage")
  /\ \E x \in {expectTokenPos(lx, obs, "TokenKindPackage",
                "the file should start with 'package <package name>'")} :
        IF x.out # "return" THEN Stop(x.l, x.obs, x.out)
        ELSE IF x.err # nil THEN Return(x.l, x.obs, RetErr(x.err))
        ELSE Jump(x.l, x.obs, "parsePackage_name", loc)

parsePackage_name ==
  /\ Running("parsePackage_name")
  /\ \E g \in {Get(lx, obs)} :
     IF g.out # "return" THEN Stop(g.l, g.obs, g.out)
     ELSE IF g.err # nil THEN Return(g.l, g.obs, RetErr(g.err))
     ELSE IF g.tok.tt # "TokenKindIdentifier"
     THEN LET e == NewError(filename, Pos(g.tok),
                     "the package name should be a plain word. eg. 'package horatio'")
          IN Return(g.l, Noted(g.obs, e), RetErr(e))
     ELSE IF g.tok.shape # "StringToken" THEN Stop(g.l, g.obs, "panic")
     ELSE Return(g.l, g.obs, Returns(nil, <<>>, <<>>, NilAST, g.tok.strVal, FALSE))

\* parseImport -------------------------------------------------------------

parseImport ==
  /\ Running("parseImport")
  /\ \E t \in {Peek(lx, obs, 0)} :
     IF t.out # "return" THEN Stop(t.l, t.obs, t.out)
     ELSE IF t.err # nil THEN Return(t.l, t.obs, RetErr(t.err))
     ELSE IF t.tok.tt # "TokenKindImport" THEN Return(t.l, t.obs, RetASTs(<<>>))
     ELSE Jump(t.l, t.obs, "parseImport_skip", loc)

\* p.lexer.GetToken(), results dropped.
parseImport_skip ==
  /\ Running("parseImport_skip")
  /\ \E g \in {Skip(lx, obs)} :
     IF g.out # "return" THEN Stop(g.l, g.obs, g.out)
     ELSE Jump(g.l, g.obs, "parseImport_group", loc)

parseImport_group ==
  /\ Running("parseImport_group")
  /\ \E t \in {Peek(lx, obs, 0)} :
     IF t.out # "return" THEN Stop(t.l, t.obs, t.out)
     ELSE IF t.err # nil THEN Return(t.l, t.obs, RetErr(t.err))
     ELSE IF t.tok.tt = "TokenKindOpenBracket"
     THEN CallProduction(t.l, t.obs, "parseGroupSingle", "parseImport_grouped",
                         [loc EXCEPT !.verbName = "import"])
     ELSE CallProduction(t.l, t.obs, "parseImportSpec", "parseImport_single", loc)

parseImport_grouped ==
  /\ Running("parseImport_grouped")
  /\ IF ret.err # nil THEN Return(lx, obs, RetErr(ret.err))
     ELSE Return(lx, obs, RetASTs(ret.asts))

parseImport_single ==
  /\ Running("parseImport_single")
  /\ IF ret.err # nil THEN Return(lx, obs, RetErr(ret.err))
     ELSE Return(lx, obs, RetASTs(<<ret.ast>>))

\* parseImportSpec ---------------------------------------------------------
\* TokenKindString is the kind of the word `string` (a SimpleToken); a
\* string literal has the kind TokenKindLiteralString.

parseImportSpec ==
  /\ Running("parseImportSpec")
  /\ \E t \in {Peek(lx, obs, 0)} :
     IF t.out # "return" THEN Stop(t.l, t.obs, t.out)
     ELSE IF t.err # nil THEN Return(t.l, t.obs, RetErr(t.err))
     ELSE CASE t.tok.tt = "TokenKindIdentifier" ->
                 IF t.tok.shape # "StringToken" THEN Stop(t.l, t.obs, "panic")
                 ELSE Jump(t.l, t.obs, "parseImportSpec_name", [loc EXCEPT !.nextToken = t.tok])
            [] t.tok.tt = "TokenKindString" ->
                 Jump(t.l, t.obs, "parseImportSpec_path", [loc EXCEPT !.nextToken = t.tok])
            [] OTHER ->
                 LET e == NewError(filename, Pos(t.tok),
                            "this import makes no sense. It should be like 'import [cool] \"coolpackage\"'")
                 IN Return(t.l, Noted(t.obs, e), RetErr(e))

\* case TokenKindIdentifier: p.lexer.GetToken(), results dropped.
parseImportSpec_name ==
  /\ Running("parseImportSpec_name")
  /\ \E g \in {Skip(lx, obs)} :
     IF g.out # "return" THEN Stop(g.l, g.obs, g.out)
     ELSE Jump(g.l, g.obs, "parseImportSpec_namedPath", loc)

\* The path after the package name, the send on p.sf.addImport, the node.
parseImportSpec_namedPath ==
  /\ Running("parseImportSpec_namedPath")
  /\ \E g \in {Get(lx, obs)} :
     IF g.out # "return" THEN Stop(g.l, g.obs, g.out)
     ELSE IF g.err # nil THEN Return(g.l, g.obs, RetErr(g.err))
     ELSE IF g.tok.tt # "TokenKindString"
     THEN LET e == NewError(filename, Pos(g.tok),
                     "this should have been a string. eg. 'import fred \"github.com/fred/thefredpackage\"'")
          IN Return(g.l, Noted(g.obs, e), RetErr(e))
     ELSE IF g.tok.shape # "StringToken" THEN Stop(g.l, g.obs, "panic")
     ELSE /\ sent' = Append(sent, importMessage(g.tok.strVal, filename, Pos(g.tok)))
          /\ lx' = g.l
          /\ obs' = g.obs
          /\ pc' = Head(stack)
          /\ stack' = Tail(stack)
          /\ ret' = RetAST(ASTImport(Pos(g.tok),
                                     ASTIdentifier(Pos(loc.nextToken), <<>>, loc.nextToken.strVal),
                                     g.tok.strVal))
          /\ UNCHANGED <<input, client, loc, status, result>>

\* case TokenKindString: GetToken, the send on p.sf.addImport, the node.
parseImportSpec_path ==
  /\ Running("parseImportSpec_path")
  /\ \E g \in {Skip(lx, obs)} :
     IF g.out # "return" THEN Stop(g.l, g.obs, g.out)
     ELSE IF loc.nextToken.shape # "StringToken" THEN Stop(g.l, g.obs, "panic")
     ELSE /\ sent' = Append(sent, importMessage(loc.nextToken.strVal, filename, Pos(loc.nextToken)))
          /\ lx' = g.l
          /\ obs' = g.obs
          /\ pc' = Head(stack)
          /\ stack' = Tail(stack)
          /\ ret' = RetAST(ASTImport(Pos(loc.nextToken), NilAST, loc.nextToken.strVal))
          /\ UNCHANGED <<input, client, loc, status, result>>

\* parseTopLevelDecl -------------------------------------------------------

parseTopLevelDecl ==
  /\ Running("parseTopLevelDecl")
  /\ \E t \in {Peek(lx, obs, 0)} :
     IF t.out # "return" THEN Stop(t.l, t.obs, t.out)
     ELSE IF t.err # nil THEN Return(t.l, t.obs, RetErr(t.err))
     ELSE CASE t.tok.tt = "TokenKindConst" ->
                 CallProduction(t.l, t.obs, "parseDecl", "parseTopLevelDecl_decl",
                                [loc EXCEPT !.parseSpec = "parseConstSpec", !.verbName = "const"])
            [] t.tok.tt = "TokenKindTypeKeyword" ->
                 CallProduction(t.l, t.obs, "parseDecl", "parseTopLevelDecl_decl",
                                [loc EXCEPT !.parseSpec = "parseTypeSpec", !.verbName = "type"])
            [] t.tok.tt = "TokenKindVar" ->
                 CallProduction(t.l, t.obs, "parseDecl", "parseTopLevelDecl_decl",
                                [loc EXCEPT !.parseSpec = "parseVarSpec", !.verbName = "var"])
            [] t.tok.tt = "TokenKindFunc" ->
                 CallProduction(t.l, t.obs, "parseFunctionDecl", "parseTopLevelDecl_func", loc)
            [] OTHER ->
                 LET e == NewError(filename, Pos(t.tok),
                            "so I wanted a top level thing like a type, a func, a const or a var, but no... you had to be different")
                 IN Return(t.l, Noted(t.obs, e), RetErr(e))

\* return true, asts, err
parseTopLevelDecl_decl ==
  /\ Running("parseTopLevelDecl_decl")
  /\ Return(lx, obs, RetMatch(ret.err, ret.asts, NilAST, TRUE))

\* return true, []AST{ast}, err
parseTopLevelDecl_func ==
  /\ Running("parseTopLevelDecl_func")
  /\ Return(lx, obs, RetMatch(ret.err, <<ret.ast>>, NilAST, TRUE))

\* parseDecl ---------------------------------------------------------------

\* p.lexer.GetToken(): the verb, results dropped.
parseDecl ==
  /\ Running("parseDecl")
  /\ \E g \in {Skip(lx, obs)} :
     IF g.out # "return" THEN Stop(g.l, g.obs, g.out)
     ELSE Jump(g.l, g.obs, "parseDecl_bracket", loc)

parseDecl_bracket ==
  /\ Running("parseDecl_bracket")
  /\ \E t \in {Peek(lx, obs, 0)} :
     IF t.out # "return" THEN Stop(t.l, t.obs, t.out)
     ELSE IF t.err # nil THEN Return(t.l, t.obs, RetErr(t.err))
     ELSE IF t.tok.tt = "TokenKindOpenBracket"
     THEN CallProduction(t.l, t.obs, "parseGroupMulti", "parseDecl_decls", loc)
     ELSE CallProduction(t.l, t.obs, loc.parseSpec, "parseDecl_decls", loc)

parseDecl_decls ==
  /\ Running("parseDecl_decls")
  /\ IF ret.err # nil THEN Return(lx, obs, RetErr(ret.err))
     ELSE Return(lx, obs, RetASTs(ret.asts))

\* parseIdentifierList -----------------------------------------------------

IdentifierMessage(identDesc) ==
  CASE identDesc = "constant"  -> "this should have been a name for a constant, but it's not"
    [] identDesc = "variable"  -> "this should have been a name for a variable, but it's not"
    [] identDesc = "parameter" -> "this should have been a name for a parameter, but it's not"

\* The call: `var asts []AST`, then the loop.
CallIdentifierList(identDesc, returnTo) ==
  CallProduction(lx, obs, "parseIdentifierList", returnTo,
                 [loc EXCEPT !.identDesc = identDesc, !.asts = <<>>])

parseIdentifierList ==
  /\ Running("parseIdentifierList")
  /\ \E g \in {Get(lx, obs)} :
     IF g.out # "return" THEN Stop(g.l, g.obs, g.out)
     ELSE IF g.err # nil THEN Return(g.l, g.obs, RetErr(g.err))
     ELSE IF g.tok.tt # "TokenKindIdentifier"
     THEN LET e == NewError(filename, Pos(g.tok), IdentifierMessage(loc.identDesc))
          IN Return(g.l, Noted(g.obs, e), RetErr(e))
     ELSE IF g.tok.shape # "StringToken" THEN Stop(g.l, g.obs, "panic")
     ELSE Jump(g.l, g.obs, "parseIdentifierList_comma",
               [loc EXCEPT !.asts = Append(@, ASTIdentifier(Pos(g.tok), <<>>, g.tok.strVal))])

parseIdentifierList_comma ==
  /\ Running("parseIdentifierList_comma")
  /\ \E t \in {Peek(lx, obs, 0)} :
     IF t.out # "return" THEN Stop(t.l, t.obs, t.out)
     ELSE IF t.err # nil THEN Return(t.l, t.obs, RetErr(t.err))
     ELSE IF t.tok.tt # "TokenKindComma" THEN Return(t.l, t.obs, RetASTs(loc.asts))
     ELSE Jump(t.l, t.obs, "parseIdentifierList_next", loc)

\* p.lexer.GetToken(): the comma, results dropped.
parseIdentifierList_next ==
  /\ Running("parseIdentifierList_next")
  /\ \E g \in {Skip(lx, obs)} :
     IF g.out # "return" THEN Stop(g.l, g.obs, g.out)
     ELSE Jump(g.l, g.obs, "parseIdentifierList", loc)

\* parseDataType -----------------------------------------------------------
\* The type parser is not part of the sources at hand.  It is taken to peek
\* at the next token: a type name (an identifier or the name of a
\* predeclared type) is consumed and is the type; anything else is "no type
\* present".

TypeNameKinds ==
  { "TokenKindIdentifier", "TokenKindBool", "TokenKindByte", "TokenKindComplex64",
    "TokenKindComplex128", "TokenKindError", "TokenKindFloat32", "TokenKindFloat64",
    "TokenKindInt", "TokenKindInt8", "TokenKindInt16", "TokenKindInt32", "TokenKindInt64",
    "TokenKindRune", "TokenKindString", "TokenKindUint", "TokenKindUint8",
    "TokenKindUint16", "TokenKindUint32", "TokenKindUint64", "TokenKindUintPtr" }

parseDataType ==
  /\ Running("parseDataType")
  /\ \E t \in {Peek(lx, obs, 0)} :
     IF t.out # "return" THEN Stop(t.l, t.obs, t.out)
     ELSE IF t.err # nil THEN Return(t.l, t.obs, RetErr(t.err))
     ELSE IF t.tok.tt \notin TypeNameKinds
     THEN Return(t.l, t.obs, RetMatch(nil, <<>>, NilAST, FALSE))
     ELSE \E g \in {Get(t.l, t.obs)} :
          Return(g.l, g.obs,
                 RetMatch(nil, <<>>,
                          ASTDataType(Pos(g.tok),
                                      IF g.tok.tt = "TokenKindIdentifier"
                                      THEN g.tok.strVal ELSE <<g.tok.tt>>),
                          TRUE))

\* parseConstSpec ----------------------------------------------------------

parseConstSpec ==
  /\ Running("parseConstSpec")
  /\ CallIdentifierList("constant", "parseConstSpec_type")

parseConstSpec_type ==
  /\ Running("parseConstSpec_type")
  /\ IF ret.err # nil THEN Return(lx, obs, RetErr(ret.err))
     ELSE CallProduction(lx, obs, "parseDataType", "parseConstSpec_equals",
                         [loc EXCEPT !.identList = ret.asts])

\* From `equalsToken, err := p.lexer.PeekToken(0)` on.  With neither a type
\* nor an `==` token exprList stays nil and the lengths are compared.  The
\* branch that parses an expression list goes on at
\* "parseConstSpec_expressions".
parseConstSpec_equals ==
  /\ Running("parseConstSpec_equals")
  /\ IF ret.err # nil THEN Return(lx, obs, RetErr(ret.err))
     ELSE \E t \in {Peek(lx, obs, 0)} :
          IF t.out # "return" THEN Stop(t.l, t.obs, t.out)
          ELSE IF t.err # nil THEN Return(t.l, t.obs, RetErr(t.err))
          ELSE IF ret.match \/ t.tok.tt = "TokenKindEquals"
          THEN IF t.tok.tt # "TokenKindEquals"
               THEN LET e == NewError(filename, Pos(t.tok),
                               "after a data type I expected to see '=' here")
                    IN Return(t.l, Noted(t.obs, e), RetErr(e))
               ELSE Jump(t.l, t.obs, "parseConstSpec_expressions", loc)
          ELSE IF loc.identList = <<>> THEN Stop(t.l, t.obs, "panic")
          ELSE LET identSpan == Add(loc.identList[1].pos,
                                    loc.identList[Len(loc.identList)].pos)
                   e == NewError(filename, identSpan,
                                 "there are more names here than there are values")
               IN Return(t.l, Noted(t.obs, e), RetErr(e))

\* parseTypeSpec -----------------------------------------------------------

parseTypeSpec ==
  /\ Running("parseTypeSpec")
  /\ \E g \in {Get(lx, obs)} :
     IF g.out # "return" THEN Stop(g.l, g.obs, g.out)
     ELSE IF g.err # nil THEN Return(g.l, g.obs, RetErr(g.err))
     ELSE IF g.tok.tt # "TokenKindIdentifier"
     THEN LET e == NewError(filename, Pos(g.tok),
                     "this should have been a name for a type, but it's not")
          IN Return(g.l, Noted(g.obs, e), RetErr(e))
     ELSE IF g.tok.shape # "StringToken" THEN Stop(g.l, g.obs, "panic")
     ELSE CallProduction(g.l, g.obs, "parseDataType", "parseTypeSpec_type",
                         [loc EXCEPT !.identAST = ASTIdentifier(Pos(g.tok), <<>>, g.tok.strVal)])

parseTypeSpec_type ==
  /\ Running("parseTypeSpec_type")
  /\ IF ret.err # nil THEN Return(lx, obs, RetErr(ret.err))
     ELSE IF ~ ret.match
     THEN \E t \in {Peek(lx, obs, 0)} :
          IF t.out # "return" THEN Stop(t.l, t.obs, t.out)
          ELSE IF t.err # nil THEN Return(t.l, t.obs, RetErr(t.err))
          ELSE LET e == NewError(filename, Pos(t.tok),
                          "this should have been a name for a type, but it's not")
               IN Return(t.l, Noted(t.obs, e), RetErr(e))
     ELSE Return(lx, obs, RetASTs(<<ASTDataTypeDecl(loc.identAST, ret.ast)>>))

\* parseVarSpec ------------------------------------------------------------

parseVarSpec ==
  /\ Running("parseVarSpec")
  /\ CallIdentifierList("variable", "parseVarSpec_type")

parseVarSpec_type ==
  /\ Running("parseVarSpec_type")
  /\ IF ret.err # nil THEN Return(lx, obs, RetErr(ret.err))
     ELSE CallProduction(lx, obs, "parseDataType", "parseVarSpec_equals",
                         [loc EXCEPT !.identList = ret.asts])

\* From `var exprList []AST` on.  With a type and no `==` token exprList
\* stays nil, the length check is skipped and the loop that builds the
\* declarations reads exprList[0]: index out of range.  The branches that
\* parse an expression list go on at "parseVarSpec_expressions".
parseVarSpec_equals ==
  /\ Running("parseVarSpec_equals")
  /\ IF ret.err # nil THEN Return(lx, obs, RetErr(ret.err))
     ELSE IF ret.match
     THEN \E t \in {Peek(lx, obs, 0)} :
          IF t.out # "return" THEN Stop(t.l, t.obs, t.out)
          ELSE IF t.err # nil THEN Return(t.l, t.obs, RetErr(t.err))
          ELSE IF t.tok.tt = "TokenKindEquals"
          THEN Jump(t.l, t.obs, "parseVarSpec_expressions", loc)
          ELSE IF Len(loc.identList) > 0 THEN Stop(t.l, t.obs, "panic")
          ELSE Return(t.l, t.obs, RetASTs(<<>>))
     ELSE \E x \in {expectTokenPos(lx, obs, "TokenKindEquals",
                     "I was expecting to see an '=' here")} :
             IF x.out # "return" THEN Stop(x.l, x.obs, x.out)
             ELSE IF x.err # nil THEN Return(x.l, x.obs, RetErr(x.err))
             ELSE Jump(x.l, x.obs, "parseVarSpec_expressions", loc)

\* parseFunctionDecl -------------------------------------------------------

\* funcToken, _ := p.lexer.GetToken()
parseFunctionDecl ==
  /\ Running("parseFunctionDecl")
  /\ \E g \in {Get(lx, obs)} :
     IF g.out # "return" THEN Stop(g.l, g.obs, g.out)
     ELSE Jump(g.l, g.obs, "parseFunctionDecl_peek",
               [loc EXCEPT !.funcToken = g.tok, !.receiver = NilAST])

parseFunctionDecl_peek ==
  /\ Running("parseFunctionDecl_peek")
  /\ \E t \in {Peek(lx, obs, 0)} :
     IF t.out # "return" THEN Stop(t.l, t.obs, t.out)
     ELSE IF t.err # nil THEN Return(t.l, t.obs, RetErr(t.err))
     ELSE IF t.tok.tt = "TokenKindOpenBracket"
     THEN CallProduction(t.l, t.obs, "parseReceiver", "parseFunctionDecl_receiver",
                         [loc EXCEPT !.tok = t.tok])
     ELSE Jump(t.l, t.obs, "parseFunctionDecl_name", [loc EXCEPT !.tok = t.tok])

\* receiver, err = p.parseReceiver(); tok, err = p.lexer.PeekToken(0): the
\* error of parseReceiver is overwritten.
parseFunctionDecl_receiver ==
  /\ Running("parseFunctionDecl_receiver")
  /\ \E t \in {Peek(lx, obs, 0)} :
     IF t.out # "return" THEN Stop(t.l, t.obs, t.out)
     ELSE IF t.err # nil THEN Return(t.l, t.obs, RetErr(t.err))
     ELSE Jump(t.l, t.obs, "parseFunctionDecl_name",
               [loc EXCEPT !.tok = t.tok, !.receiver = ret.ast])

parseFunctionDecl_name ==
  /\ Running("parseFunctionDecl_name")
  /\ IF loc.tok.tt # "TokenKindIdentifier"
     THEN LET e == NewError(filename, Pos(loc.tok),
                     "this should have been a function name, but it's not")
          IN Return(lx, Noted(obs, e), RetErr(e))
     ELSE IF loc.tok.shape # "StringToken" THEN Stop(lx, obs, "panic")
     ELSE \E g \in {Skip(lx, obs)} :
          IF g.out # "return" THEN Stop(g.l, g.obs, g.out)
          ELSE CallProduction(g.l, g.obs, "parseSignature", "parseFunctionDecl_signature",
                              [loc EXCEPT !.funcName = loc.tok.strVal])

\* From the error check after parseSignature on.  bodyToken is used
\* without a look at the error of PeekToken.  A body goes on at
\* "parseBlock".
parseFunctionDecl_signature ==
  /\ Running("parseFunctionDecl_signature")
  /\ IF ret.err # nil THEN Return(lx, obs, RetErr(ret.err))
     ELSE \E t \in {Peek(lx, obs, 0)} :
          IF t.out # "return" THEN Stop(t.l, t.obs, t.out)
          ELSE IF t.err # nil THEN Stop(t.l, t.obs, "panic")
          ELSE IF t.tok.tt = "TokenKindOpenBrace"
          THEN CallProduction(t.l, t.obs, "parseBlock", "parseFunctionDecl_body", loc)
          ELSE Return(t.l, t.obs,
                      RetAST(ASTFunctionDecl(Add(Pos(loc.funcToken), Pos(loc.tok)), loc.funcName,
                                             loc.receiver, ret.asts, ret.more, NilAST)))

\* parseReceiver -----------------------------------------------------------

parseReceiver ==
  /\ Running("parseReceiver")
  /\ \E x \in {expectTokenPos(lx, obs, "TokenKindOpenBracket",
                "receivers start with an open bracket, but that's not what I'm seeing")} :
        IF x.out # "return" THEN Stop(x.l, x.obs, x.out)
        ELSE IF x.err # nil THEN Return(x.l, x.obs, RetErr(x.err))
        ELSE Jump(x.l, x.obs, "parseReceiver_first",
                  [loc EXCEPT !.bracketPos = x.pos, !.ident = <<>>])

parseReceiver_first ==
  /\ Running("parseReceiver_first")
  /\ \E g \in {Get(lx, obs)} :
     IF g.out # "return" THEN Stop(g.l, g.obs, g.out)
     ELSE IF g.err # nil THEN Return(g.l, g.obs, RetErr(g.err))
     ELSE Jump(g.l, g.obs, "parseReceiver_second", [loc EXCEPT !.recvTok = g.tok])

\* tok2, err := p.lexer.PeekToken(1), and the test for a receiver name.
parseReceiver_second ==
  /\ Running("parseReceiver_second")
  /\ \E t \in {Peek(lx, obs, 1)} :
     IF t.out # "return" THEN Stop(t.l, t.obs, t.out)
     ELSE IF t.err # nil THEN Return(t.l, t.obs, RetErr(t.err))
     ELSE IF loc.recvTok.tt = "TokenKindIdentifier" /\ t.tok.tt # "TokenKindCloseBracket"
     THEN IF loc.recvTok.shape # "StringToken" THEN Stop(t.l, t.obs, "panic")
          ELSE Jump(t.l, t.obs, "parseReceiver_afterName",
                    [loc EXCEPT !.ident = loc.recvTok.strVal])
     ELSE Jump(t.l, t.obs, "parseReceiver_base", loc)

parseReceiver_afterName ==
  /\ Running("parseReceiver_afterName")
  /\ \E g \in {Get(lx, obs)} :
     IF g.out # "return" THEN Stop(g.l, g.obs, g.out)
     ELSE IF g.err # nil THEN Return(g.l, g.obs, RetErr(g.err))
     ELSE Jump(g.l, g.obs, "parseReceiver_base", [loc EXCEPT !.recvTok = g.tok])

\* The optional '*', the base type name and the closing bracket, whose
\* error is assigned to err and not looked at.
parseReceiver_base ==
  /\ Running("parseReceiver_base")
  /\ \E pointer \in {loc.recvTok.tt = "TokenKindAsterisk"} :
     \E g \in {IF pointer THEN Get(lx, obs)
                ELSE [l |-> lx, tok |-> loc.recvTok, err |-> nil, out |-> "return",
                      obs |-> obs]} :
     IF g.out # "return" THEN Stop(g.l, g.obs, g.out)
     ELSE IF g.err # nil THEN Return(g.l, g.obs, RetErr(g.err))
     ELSE IF g.tok.tt # "TokenKindIdentifier"
     THEN LET e == NewError(filename, Pos(g.tok),
                     "I was expecting a type name in this receiver. Receivers should look like '(rec_var [*]type_name)'")
          IN Return(g.l, Noted(g.obs, e), RetErr(e))
     ELSE IF g.tok.shape # "StringToken" THEN Stop(g.l, g.obs, "panic")
     ELSE \E x \in {expectTokenPos(g.l, g.obs, "TokenKindCloseBracket",
                                    "I'd like a ')' to finish this receiver... thanks")} :
          IF x.out # "return" THEN Stop(x.l, x.obs, x.out)
             ELSE Return(x.l, x.obs,
                         RetAST(ASTReceiver(Add(loc.bracketPos, x.pos), loc.ident, pointer,
                                            g.tok.strVal)))

\* parseGroupSingle (its one caller passes p.parseImportSpec) ---------------

SemicolonMessage(verbName) ==
  CASE verbName = "import" -> "I really wanted a semicolon between these 'import's"
    [] verbName = "const"  -> "I really wanted a semicolon between these 'const's"
    [] verbName = "type"   -> "I really wanted a semicolon between these 'type's"
    [] verbName = "var"    -> "I really wanted a semicolon between these 'var's"

parseGroupSingle ==
  /\ Running("parseGroupSingle")
  /\ \E x \in {expectTokenPos(lx, obs, "TokenKindOpenBracket", "there should be a '(' here")} :
        IF x.out # "return" THEN Stop(x.l, x.obs, x.out)
        ELSE IF x.err # nil THEN Return(x.l, x.obs, RetErr(x.err))
        ELSE Jump(x.l, x.obs, "parseGroupSingle_skip", loc)

\* p.lexer.GetToken(), results dropped; var asts []AST.
parseGroupSingle_skip ==
  /\ Running("parseGroupSingle_skip")
  /\ \E g \in {Skip(lx, obs)} :
     IF g.out # "return" THEN Stop(g.l, g.obs, g.out)
     ELSE Jump(g.l, g.obs, "parseGroupSingle_clause", [loc EXCEPT !.gsAsts = <<>>])

parseGroupSingle_clause ==
  /\ Running("parseGroupSingle_clause")
  /\ \E t \in {Peek(lx, obs, 0)} :
     IF t.out # "return" THEN Stop(t.l, t.obs, t.out)
     ELSE IF t.err # nil THEN Return(t.l, t.obs, RetErr(t.err))
     ELSE IF t.tok.tt = "TokenKindCloseBracket" THEN Return(t.l, t.obs, RetASTs(loc.gsAsts))
     ELSE CallProduction(t.l, t.obs, "parseImportSpec", "parseGroupSingle_semicolon", loc)

parseGroupSingle_semicolon ==
  /\ Running("parseGroupSingle_semicolon")
  /\ IF ret.err # nil THEN Return(lx, obs, RetErr(ret.err))
     ELSE \E x \in {expectTokenPos(lx, obs, "TokenKindSemicolon", SemicolonMessage(loc.verbName))} :
             IF x.out # "return" THEN Stop(x.l, x.obs, x.out)
             ELSE IF x.err # nil THEN Return(x.l, x.obs, RetErr(x.err))
             ELSE Jump(x.l, x.obs, "parseGroupSingle_clause",
                       [loc EXCEPT !.gsAsts = Append(@, ret.ast)])

\* parseGroupMulti ---------------------------------------------------------

parseGroupMulti ==
  /\ Running("parseGroupMulti")
  /\ \E x \in {expectTokenPos(lx, obs, "TokenKindOpenBracket", "there should be a '(' here")} :
        IF x.out # "return" THEN Stop(x.l, x.obs, x.out)
        ELSE IF x.err # nil THEN Return(x.l, x.obs, RetErr(x.err))
        ELSE Jump(x.l, x.obs, "parseGroupMulti_skip", loc)

\* p.lexer.GetToken(), results dropped; var asts []AST.
parseGroupMulti_skip ==
  /\ Running("parseGroupMulti_skip")
  /\ \E g \in {Skip(lx, obs)} :
     IF g.out # "return" THEN Stop(g.l, g.obs, g.out)
     ELSE Jump(g.l, g.obs, "parseGroupMulti_clause", [loc EXCEPT !.gmAsts = <<>>])

parseGroupMulti_clause ==
  /\ Running("parseGroupMulti_clause")
  /\ \E t \in {Peek(lx, obs, 0)} :
     IF t.out # "return" THEN Stop(t.l, t.obs, t.out)
     ELSE IF t.err # nil THEN Return(t.l, t.obs, RetErr(t.err))
     ELSE IF t.tok.tt = "TokenKindCloseBracket" THEN Return(t.l, t.obs, RetASTs(loc.gmAsts))
     ELSE CallProduction(t.l, t.obs, loc.parseSpec, "parseGroupMulti_semicolon", loc)

parseGroupMulti_semicolon ==
  /\ Running("parseGroupMulti_semicolon")
  /\ IF ret.err # nil THEN Return(lx, obs, RetErr(ret.err))
     ELSE \E x \in {expectTokenPos(lx, obs, "TokenKindSemicolon", SemicolonMessage(loc.verbName))} :
             IF x.out # "return" THEN Stop(x.l, x.obs, x.out)
             ELSE IF x.err # nil THEN Return(x.l, x.obs, RetErr(x.err))
             ELSE Jump(x.l, x.obs, "parseGroupMulti_clause",
                       [loc EXCEPT !.gmAsts = @ \o ret.asts])

\* parseOptionallyQualifiedIdentifier --------------------------------------

parseOptionallyQualifiedIdentifier ==
  /\ Running("parseOptionallyQualifiedIdentifier")
  /\ \E g \in {Get(lx, obs)} :
     IF g.out # "return" THEN Stop(g.l, g.obs, g.out)
     ELSE IF g.err # nil THEN Return(g.l, g.obs, RetErr(g.err))
     ELSE IF g.tok.tt # "TokenKindIdentifier"
     THEN LET e == NewError(filename, Pos(g.tok),
                     "if you could just put an identifier here that'd be greeeat")
          IN Return(g.l, Noted(g.obs, e), RetErr(e))
     ELSE IF g.tok.shape # "StringToken" THEN Stop(g.l, g.obs, "panic")
     ELSE Jump(g.l, g.obs, "parseOptionallyQualifiedIdentifier_dot",
               [loc EXCEPT !.identAST = ASTIdentifier(Pos(g.tok), <<>>, g.tok.strVal)])

\* tok, err = p.lexer.PeekToken(0), and tok.TokenKind() with no look at err:
\* a nil tok panics.  After a '.', GetToken takes the '.', and the test for
\* an identifier is made on tok, which still is the '.'.
parseOptionallyQualifiedIdentifier_dot ==
  /\ Running("parseOptionallyQualifiedIdentifier_dot")
  /\ \E t \in {Peek(lx, obs, 0)} :
     IF t.out # "return" THEN Stop(t.l, t.obs, t.out)
     ELSE IF t.err # nil THEN Stop(t.l, t.obs, "panic")
     ELSE IF t.tok.tt # "TokenKindDot" THEN Return(t.l, t.obs, RetAST(loc.identAST))
     ELSE \E g \in {Skip(t.l, t.obs)} :
          LET e == NewError(filename, Pos(t.tok),
                     "if you could just put an identifier here that'd be greeeat")
          IN Return(g.l, Noted(g.obs, e), RetErr(e))

\* parseSignature ----------------------------------------------------------

parseSignature ==
  /\ Running("parseSignature")
  /\ CallProduction(lx, obs, "parseBracketedParameterList", "parseSignature_params", loc)

\* The error check after the parameter list.  parseBracketedParameterList
\* only ever returns with an error (its loop has no other exit), so the
\* result part of the signature, which goes on at "parseSignature_result",
\* is never entered.
parseSignature_params ==
  /\ Running("parseSignature_params")
  /\ IF ret.err # nil THEN Return(lx, obs, RetErr(ret.err))
     ELSE Jump(lx, obs, "parseSignature_result", loc)

\* parseBracketedParameterList ---------------------------------------------

parseBracketedParameterList ==
  /\ Running("parseBracketedParameterList")
  /\ \E x \in {expectTokenPos(lx, obs, "TokenKindOpenBracket",
                               "parameter lists should start with '('")} :
     IF x.out # "return" THEN Stop(x.l, x.obs, x.out)
        ELSE IF x.err # nil THEN Return(x.l, x.obs, RetErr(x.err))
        ELSE Jump(x.l, x.obs, "parseBracketedParameterList_decl", [loc EXCEPT !.params = <<>>])

\* for { newParams, err := p.parseParameterDecl() ... }: the loop has no exit
\* but the error return.
parseBracketedParameterList_decl ==
  /\ Running("parseBracketedParameterList_decl")
  /\ CallProduction(lx, obs, "parseParameterDecl", "parseBracketedParameterList_append", loc)

parseBracketedParameterList_append ==
  /\ Running("parseBracketedParameterList_append")
  /\ IF ret.err # nil THEN Return(lx, obs, RetErr(ret.err))
     ELSE Jump(lx, obs, "parseBracketedParameterList_decl",
               [loc EXCEPT !.params = @ \o ret.asts])

\* parseParameterDecl ------------------------------------------------------

parseParameterDecl ==
  /\ Running("parseParameterDecl")
  /\ CallIdentifierList("parameter", "parseParameterDecl_ellipsis")

parseParameterDecl_ellipsis ==
  /\ Running("parseParameterDecl_ellipsis")
  /\ IF ret.err # nil THEN Return(lx, obs, RetErr(ret.err))
     ELSE \E t \in {Peek(lx, obs, 0)} :
          IF t.out # "return" THEN Stop(t.l, t.obs, t.out)
          ELSE IF t.err # nil THEN Return(t.l, t.obs, RetErr(t.err))
          ELSE Jump(t.l, t.obs, "parseParameterDecl_type",
                    [loc EXCEPT !.idents = IF t.tok.tt = "TokenKindEllipsis"
                                           THEN Append(ret.asts, ASTEllipsis(Pos(t.tok)))
                                           ELSE ret.asts])

parseParameterDecl_type ==
  /\ Running("parseParameterDecl_type")
  /\ \E t \in {Peek(lx, obs, 0)} :
     IF t.out # "return" THEN Stop(t.l, t.obs, t.out)
     ELSE IF t.err # nil THEN Return(t.l, t.obs, RetErr(t.err))
     ELSE CallProduction(t.l, t.obs, "parseDataType", "parseParameterDecl_params",
                         [loc EXCEPT !.typeToken = t.tok])

parseParameterDecl_params ==
  /\ Running("parseParameterDecl_params")
  /\ IF ret.err # nil THEN Return(lx, obs, RetErr(ret.err))
     ELSE IF ~ ret.match
     THEN LET e == NewError(filename, Pos(loc.typeToken),
                     "there's a missing type in this parameter list")
          IN Return(lx, Noted(obs, e), RetErr(e))
     ELSE Return(lx, obs,
                 RetASTs([i \in 1..Len(loc.idents) |-> ASTParameterDecl(loc.idents[i], ret.ast)]))

ParserNext ==
  \/ Parse
  \/ parseSourceFile
  \/ parseSourceFile_semicolon
  \/ parseSourceFile_imports
  \/ parseSourceFile_import
  \/ parseSourceFile_importSemicolon
  \/ parseSourceFile_decls
  \/ parseSourceFile_decl
  \/ parseSourceFile_declSemicolon
  \/ parsePackage
  \/ parsePackage_name
  \/ parseImport
  \/ parseImport_skip
  \/ parseImport_group
  \/ parseImport_grouped
  \/ parseImport_single
  \/ parseImportSpec
  \/ parseImportSpec_name
  \/ parseImportSpec_namedPath
  \/ parseImportSpec_path
  \/ parseTopLevelDecl
  \/ parseTopLevelDecl_decl
  \/ parseTopLevelDecl_func
  \/ parseDecl
  \/ parseDecl_bracket
  \/ parseDecl_decls
  \/ parseIdentifierList
  \/ parseIdentifierList_comma
  \/ parseIdentifierList_next
  \/ parseDataType
  \/ parseConstSpec
  \/ parseConstSpec_type
  \/ parseConstSpec_equals
  \/ parseTypeSpec
  \/ parseTypeSpec_type
  \/ parseVarSpec
  \/ parseVarSpec_type
  \/ parseVarSpec_equals
  \/ parseFunctionDecl
  \/ parseFunctionDecl_peek
  \/ parseFunctionDecl_receiver
  \/ parseFunctionDecl_name
  \/ parseFunctionDecl_signature
  \/ parseReceiver
  \/ parseReceiver_first
  \/ parseReceiver_second
  \/ parseReceiver_afterName
  \/ parseReceiver_base
  \/ parseGroupSingle
  \/ parseGroupSingle_skip
  \/ parseGroupSingle_clause
  \/ parseGroupSingle_semicolon
  \/ parseGroupMulti
  \/ parseGroupMulti_skip
  \/ parseGroupMulti_clause
  \/ parseGroupMulti_semicolon
  \/ parseOptionallyQualifiedIdentifier
  \/ parseOptionallyQualifiedIdentifier_dot
  \/ parseSignature
  \/ parseSignature_params
  \/ parseBracketedParameterList
  \/ parseBracketedParameterList_decl
  \/ parseBracketedParameterList_append
  \/ parseParameterDecl
  \/ parseParameterDecl_ellipsis
  \/ parseParameterDecl_type
  \/ parseParameterDecl_params

\* A caller (of the same package) that goes into one production directly,
\* on a fresh parser, and what the production returns to it.
Productions == {"parseTopLevelDecl", "parseOptionallyQualifiedIdentifier", "parseReceiver"}

ParseProduction ==
  /\ status = "idle"
  /\ \E production \in Productions :
       /\ pc' = production
       /\ obs' = [obs EXCEPT !.entry = production]
  /\ status' = "running"
  /\ stack' = <<"ProductionReturned">>
  /\ UNCHANGED <<input, lx, client, loc, ret, result, sent>>

ProductionReturned ==
  /\ Running("ProductionReturned")
  /\ Finish(lx, obs, ret.err)

\* ---------------------------------------------------------------- inputs

Spell(w) ==
  CASE w = "package" -> <<"p", "a", "c", "k", "a", "g", "e">>
    [] w = "main"    -> <<"m", "a", "i", "n">>
    [] w = "import"  -> <<"i", "m", "p", "o", "r", "t">>
    [] w = "const"   -> <<"c", "o", "n", "s", "t">>
    [] w = "type"    -> <<"t", "y", "p", "e">>
    [] w = "var"     -> <<"v", "a", "r">>
    [] w = "func"    -> <<"f", "u", "n", "c">>
    [] w = "int"     -> <<"i", "n", "t">>
    [] w = "string"  -> <<"s", "t", "r", "i", "n", "g">>
    [] w = "comment" -> <<"c", "o", "m", "m", "e", "n", "t">>
    [] w = "\"fmt\"" -> <<"\"", "f", "m", "t", "\"">>
    [] w = "fmt"     -> <<"f", "m", "t">>
    [] w = "\"a\""   -> <<"\"", "a", "\"">>
    [] w = "'ab'"    -> <<"'", "a", "b", "'">>
    [] w = "'a'"     -> <<"'", "a", "'">>
    [] w = "1.5e3"   -> <<"1", ".", "5", "e", "3">>
    [] w = "1e"      -> <<"1", "e">>
    [] w = "007"     -> <<"0", "0", "7">>
    [] w = ":="      -> <<":", "=">>
    [] w = "//"      -> <<"/", "/">>
    [] w = "/*"      -> <<"/", "*">>
    [] w = "*/"      -> <<"*", "/">>
    [] OTHER         -> <<w>>

\* The text made of the words ws, one after the other.
RECURSIVE Source(_)
Source(ws) == IF ws = <<>> THEN <<>> ELSE Spell(Head(ws)) \o Source(Tail(ws))

\* The text made of the words ws with a space after each.
RECURSIVE Spaced(_)
Spaced(ws) == IF ws = <<>> THEN <<>> ELSE Spell(Head(ws)) \o <<" ">> \o Spaced(Tail(ws))

SeqsUpTo(S, n) == UNION { [1..k -> S] : k \in 0..n }

\* Lexer inputs: texts of whitespace and comments only ...
MaxBlank == 3

BlankRunes == {" ", "\n", "\t", "\r"}

BlankSamples ==
  { Source(<<"/*", " ", "a", "\n", "b", " ", "*/">>),
    Source(<<"//", " ", "c", "\n">>),
    Source(<<"//", "c">>),
    Source(<<" ", "\n", "//", " ", "c", "\n", "/*", "*/", " ">>),
    Source(<<"/*", "\n", "*", "\n", "*/", "\n">>),
    Source(<<"/*", " ", "*/", "//", "\n", "\t">>) }

BlankInputs == SeqsUpTo(BlankRunes, MaxBlank) \cup BlankSamples

\* ... and texts with tokens, faulty lexemes and failing reads.
C8Example ==
  Source(<<"x", " ", ":=", " ", "1", " ", "+", " ", "2", " ", "//", " ", "comment", "\n">>)

LexSamples ==
  { C8Example,
    Source(<<"x", " ", "1", " ", "2", " ", "//", " ", "comment", "\n">>),
    Source(<<"a", " ", "b", " ", "c", " ", "d">>),
    Source(<<"a", "/*", "c", "*/", "b", "//", "c", "\n", "const">>),
    Source(<<"package", " ", "main", "\n", "const", " ", "x", " ", "1.5e3", " ", "007">>),
    Source(<<"'ab'", " ", "x", " ", "y">>),
    Source(<<"x", " ", "'ab'", " ", "y", " ", "z">>),
    Source(<<"'a'", " ", "\"fmt\"", " ", "(", ")", "{", "}", ";", ",">>),
    Source(<<"1e", " ", "2", " ", "\"", "a">>),
    Source(<<"a", " ", "#", " ", "b">>),
    Source(<<"a", IoErrMark, "b", " ", "c">>),
    Source(<<IoErrMark, "a", " ", IoErrMark, " ", "b">>),
    Source(<<"a", " ", "=", " ", "b">>),
    Source(<<"a", " ", "b", " ", "*", "c">>),
    Source(<<".", "5">>),
    Source(<<BackQuote, "a", "/*", "b", BackQuote, " ", "c", "*/", "d">>) }

\* String literals: an opening quote, a body without that quote, and the
\* closing quote or the end of the input; alone or after an identifier.
MaxString == 2

StringRunes == {"a", "/", "*", "\n"}

Quotes == {"\"", BackQuote}

StringBodies == SeqsUpTo(StringRunes, MaxString)

TerminatedLiteral(quote, body) == <<quote>> \o body \o <<quote>>

UnterminatedLiterals ==
  { lead \o <<quote>> \o body :
      lead \in {<<>>, <<"x", " ">>}, quote \in Quotes, body \in StringBodies }

TerminatedLiterals ==
  { TerminatedLiteral(quote, body) : quote \in Quotes, body \in StringBodies }

\* Block comments: `/*`, a body, `*/` and the letter b after it.  A body
\* with `*/` in it ends the comment early, one that ends in `*` or starts
\* with `/` tries the rule for the closing `/`.
MaxComment == 3

CommentRunes == {"*", "/", "\n", "a"}

CommentBodies == SeqsUpTo(CommentRunes, MaxComment)

BlockComment(body) == <<"/", "*">> \o body \o <<"*", "/">>

CommentInputs == { BlockComment(body) \o <<"b">> : body \in CommentBodies }

\* Texts with a `/` that starts no comment.
SlashInputs ==
  { Source(<<"a", "/", "b">>),
    Source(<<"/">>),
    Source(<<"/", "a">>),
    Source(<<"a", "/">>),
    Source(<<"1", "/", "2", "/", "3">>),
    Source(<<"/", " ", "/", "\n", "/", "+">>) }

\* Operators: a first character of the operator table and up to MaxFollow
\* characters after it.
MaxFollow == 2

OperatorFirst == {"<", "+", "("}

FollowRunes == {"<", "=", "-", "+", "a"}

OperatorInputs ==
  { <<first>> \o follow : first \in OperatorFirst, follow \in SeqsUpTo(FollowRunes, MaxFollow) }

\* Texts for the position of the first token: at the very start, after
\* blanks on the same line, on the second line.
PositionInputs ==
  { Source(<<"a", "b", " ", "c">>),
    Source(<<" ", " ", "a", "b", " ", "c">>),
    Source(<<" ", "\n", " ", "1", "2", ";">>),
    Source(<<"(", "a">>) }

\* Texts with a read of the stream that fails: in whitespace, in an
\* identifier, in a number, after punctuation, in a literal.
ReadErrorInputs ==
  { Source(<<IoErrMark>>),
    Source(<<" ", IoErrMark, " ", "a">>),
    Source(<<"a", " ", "\n", IoErrMark, "b">>),
    Source(<<"a", "b", IoErrMark, "c", " ", "d">>),
    Source(<<"1", "2", IoErrMark, "3", " ", "4">>),
    Source(<<"(", IoErrMark, ")">>),
    Source(<<"\"", "a", IoErrMark, "b", "\"", " ", "c">>),
    Source(<<"'", "a", IoErrMark, "'", " ", "c">>),
    Source(<<"x", " ", "y", IoErrMark, " ", "z">>) }

LexInputs ==
  BlankInputs \cup LexSamples \cup ReadErrorInputs \cup PositionInputs \cup OperatorInputs

\* Parser inputs: whole programs, and `package m;` followed by every short
\* sequence of lexemes.
MaxBody == 2

BodyLexemes ==
  { "import", "const", "type", "var", "func", "x", "T", "int", "(", ")", ";", ",", "1", "=" }

Header == Source(<<"package", " ", "m", ";">>)

C3Program ==
  Source(<<"package", " ", "main", "\n", "const", " ", "x", " ", "=", " ", "1", "\n">>)

C10Program ==
  Source(<<"func", " ", "(", "r", " ", "*", "T", ")", " ", "M", "(", ")", " ", "{", "}">>)

C10NoReceiver == Source(<<"func", " ", "M", "(", ")", " ", "{", "}">>)

\* The four forms of a receiver, each with the method name after it.
ReceiverType == Source(<<"(", "T", ")", " ", "M">>)

ReceiverNameType == Source(<<"(", "r", " ", "T", ")", " ", "M">>)

ReceiverNamePointer == Source(<<"(", "r", " ", "*", "T", ")", " ", "M">>)

ReceiverPointer == Source(<<"(", "*", "T", ")", " ", "M">>)

ReceiverForms == {ReceiverType, ReceiverNameType, ReceiverNamePointer, ReceiverPointer}

\* Declarations with a parenthesized group of k specs, each spec followed by
\* a semicolon, and the semicolon of the declaration after the group.
RECURSIVE TypeGroup(_)
TypeGroup(names) ==
  IF names = <<>> THEN <<>>
  ELSE Source(<<Head(names), " ", "int", ";", " ">>) \o TypeGroup(Tail(names))

GroupOf(verb, names) ==
  Source(<<verb, " ", "(", " ">>) \o TypeGroup(names) \o Source(<<")", ";">>)

GroupNames == {<<>>, <<"T">>, <<"T", "U">>}

GroupInputs ==
  { GroupOf("type", names) : names \in GroupNames } \cup
  { GroupOf(verb, <<>>) : verb \in {"const", "var"} }

TypeSingle == Source(<<"type", " ", "T", " ", "int", ";">>)

\* The program of ImportSingle without its import declaration.
NoImportProgram == Header \o TypeSingle

\* A VarSpec with a type and no initializer, and one with neither.
VarTyped == Source(<<"var", " ", "a", ",", " ", "b", " ", "T", ";">>)

VarBare == Source(<<"var", " ", "a", ";">>)

\* ConstSpecs and VarSpecs with an initializer, with and without a type,
\* and a ConstSpec with a type and no initializer.
InitializedSpecs ==
  { Source(<<verb, " ", "a">>) \o typ \o Source(<<" ", "=", " ", "1", ";">>) :
      verb \in {"const", "var"}, typ \in {<<>>, Source(<<" ", "int">>)} }

ConstTypedBare == Source(<<"const", " ", "a", " ", "int", ";">>)

C11Program ==
  Source(<<"const", " ", "a", ",", " ", "b", " ", "=", " ", "1", "\n">>)

\* Programs with import declarations: a single ImportSpec, one with an
\* alias, and a group of two; each followed by a type declaration.
ImportSingle ==
  Header \o Source(<<"import", " ", "\"fmt\"", ";", "type", " ", "T", " ", "int", ";">>)

ImportAlias ==
  Header \o Source(<<"import", " ", "x", " ", "\"fmt\"", ";", "type", " ", "T", " ", "int", ";">>)

ImportGroup ==
  Header \o Source(<<"import", " ", "(", "\"fmt\"", ";", "x", " ", "\"a\"", ";", ")", ";",
                     "type", " ", "T", " ", "int", ";">>)

ImportPrograms == {ImportSingle, ImportAlias, ImportGroup}

\* The paths of the ImportSpecs of an import program, in source order.
ImportPaths(text) ==
  IF text = ImportGroup THEN <<Spell("fmt"), <<"a">>>> ELSE <<Spell("fmt")>>

\* Programs that end where the grammar asks for more: after `package main`,
\* inside an open group, in the middle of a declaration.
TruncatedPrograms ==
  { Source(<<"package", " ", "main">>),
    Source(<<"package">>),
    Header \o Spaced(<<"import", "(">>),
    Header \o Spaced(<<"type", "T">>),
    Header \o Spaced(<<"var", "x", ",">>),
    Header \o Spaced(<<"func">>),
    Header \o Spaced(<<"func", "(", "x", "T">>) }

C9Program == Header \o Source(<<"func", " ", "(", "1", " ", "f", " ", "(">>)

ParseSamples ==
  { <<>>,
    <<IoErrMark>>,
    C3Program,
    C10Program,
    C10NoReceiver,
    C9Program,
    C11Program,
    Header \o C11Program,
    Source(<<"package">>),
    Source(<<"package", " ", "1">>),
    Source(<<"main">>),
    Source(<<"x", " ", "y">>),
    Source(<<"x", ".", "y">>),
    Header \o C10Program,
    Header \o C10NoReceiver,
    Header \o Source(<<IoErrMark>>),
    Header \o Source(<<"import", " ", "\"fmt\"", ";">>),
    Header \o Source(<<"import", " ", "string", ";">>),
    Header \o Source(<<"import", " ", "x", " ", "string", ";">>),
    Header \o Source(<<"import", " ", "(", "x", " ", "y", " ", "\"fmt\"", ";", ")">>),
    Header \o Source(<<"import", " ", "(", "x", ")", ";", "const", " ", "x">>),
    Header \o Source(<<"const", " ", "x", ",", " ", "y", " ", "int", ";">>),
    Header \o Source(<<"const", " ", "x", ",", " ", "y", ";">>),
    Header \o Source(<<"const", " ", "(", "T", " ", "x", ";", ")">>),
    Header \o Source(<<"type", " ", "T", " ", "int", ";", "type", " ", "T", " ", "1">>),
    Header \o Source(<<"type", " ", "(", "T", " ", "x", " ", "int", ";", ")", ";">>),
    Header \o Source(<<"var", " ", "x", " ", "int", ";">>),
    Header \o Source(<<"var", " ", "x", ",", "y", ";">>),
    Header \o Source(<<"func", " ", "M", "(", "a", ",", "b", " ", "int", ",", "c", " ", "T", ")">>),
    Header \o Source(<<"func", " ", "M", "(", "a", " ", ")">>),
    Header \o Source(<<"func", " ", "(", "r", " ", "T", ")", " ", "M", "(", ")">>),
    Header \o Source(<<"func", " ", "(", "r", " ", "T", " ", "x", " ", "M", "(", "a", " ", "int", ")">>),
    Header \o Source(<<"func", " ", "(", "T", " ", "x", " ", "M", " ", "(">>),
    Header \o Source(<<"func", " ", "(", "T", ")", " ", "M", "(", ")">>),
    Header \o Source(<<"func", " ", "1">>) }

ParseInputs == ParseSamples \cup TruncatedPrograms \cup ImportPrograms \cup ReceiverForms \cup GroupInputs \cup {TypeSingle, NoImportProgram, VarTyped, VarBare, ConstTypedBare} \cup InitializedSpecs \cup { Header \o Spaced(b) : b \in SeqsUpTo(BodyLexemes, MaxBody) }

\* --------------------------------------------------- callers of the lexer
\* A caller of GetToken and PeekToken: what it called and what came back,
\* call after call, and the lexer as it was before the last call.

MaxCalls == 4

MaxAhead == 2

NoCalls == [status |-> "ready", hist |-> <<>>, before |-> NewLexer(<<>>)]

Called(op, ahead, t) ==
  [ status |-> CASE t.out = "return" -> "ready"
                 [] t.out = "hang"   -> "hung"
                 [] OTHER            -> "panic",
    hist   |-> Append(client.hist,
                      [op |-> op, ahead |-> ahead, tok |-> t.tok, err |-> t.err, out |-> t.out]),
    before |-> lx ]

ClientGetToken ==
  /\ client.status = "ready"
  /\ Len(client.hist) < MaxCalls
  /\ LET t == GetToken(lx) IN
     /\ lx' = t.l
     /\ client' = Called("GetToken", 0, t)
  /\ UNCHANGED <<input, pc, stack, loc, ret, status, result, sent, obs>>

ClientPeekToken ==
  /\ client.status = "ready"
  /\ Len(client.hist) < MaxCalls
  /\ \E ahead \in 0..MaxAhead :
       LET t == PeekToken(lx, ahead) IN
       /\ lx' = t.l
       /\ client' = Called("PeekToken", ahead, t)
  /\ UNCHANGED <<input, pc, stack, loc, ret, status, result, sent, obs>>

\* A caller inside the package that reads runes: getRune and peekRune(n).
RuneCalled(op, ahead, g) ==
  [ status |-> IF g.hang THEN "hung" ELSE "ready",
    hist   |-> Append(client.hist,
                      [op |-> op, ahead |-> ahead, r |-> g.r, err |-> g.err,
                       out |-> IF g.hang THEN "hang" ELSE "return"]),
    before |-> lx ]

ClientGetRune ==
  /\ client.status = "ready"
  /\ Len(client.hist) < MaxCalls
  /\ \E g \in {getRune(lx)} :
       /\ lx' = g.l
       /\ client' = RuneCalled("getRune", 0, g)
  /\ UNCHANGED <<input, pc, stack, loc, ret, status, result, sent, obs>>

ClientPeekRune ==
  /\ client.status = "ready"
  /\ Len(client.hist) < MaxCalls
  /\ \E ahead \in 0..(ncNextRunesSize - 1) :
       \E g \in {peekRune(lx, ahead)} :
         /\ lx' = g.l
         /\ client' = RuneCalled("peekRune", ahead, g)
  /\ UNCHANGED <<input, pc, stack, loc, ret, status, result, sent, obs>>

\* A caller inside the package that reads the filtered runes one after the
\* other with getRune, up to the first error.
MaxRunes == 10

DrainRune ==
  /\ client.status = "ready"
  /\ Len(client.hist) < MaxRunes
  /\ client.hist # <<>> => client.hist[Len(client.hist)].err = nil
  /\ \E g \in {getRune(lx)} :
       /\ lx' = g.l
       /\ client' = RuneCalled("getRune", 0, g)
  /\ UNCHANGED <<input, pc, stack, loc, ret, status, result, sent, obs>>

\* -------------------------------------------------------- specifications

InitWith(inputs) ==
  /\ input \in inputs
  /\ lx = NewLexer(input)
  /\ client = NoCalls
  /\ pc = ""
  /\ stack = <<>>
  /\ loc = NoLocals
  /\ ret = RetErr(nil)
  /\ status = "idle"
  /\ result = nil
  /\ sent = <<>>
  /\ obs = [entry |-> "", firstErr |-> nil, taken |-> 0, takenAtErr |-> 0,
            handed |-> <<>>, seen |-> {}, blind |-> FALSE]

\* The parser on a source file.
Init == InitWith(ParseInputs)

Next == ParserNext \/ ParseProduction \/ ProductionReturned

Spec == Init /\ [][Next]_vars

\* The lexer under a caller of its pull interface.
InitLex == InitWith(LexInputs)

NextLex == ClientGetToken \/ ClientPeekToken

SpecLex == InitLex /\ [][NextLex]_vars

\* The lexer under a caller of its rune methods.
RuneInputs == SeqsUpTo(BlankRunes, MaxBlank) \cup BlankSamples \cup LexSamples

InitRune == InitWith(RuneInputs)

NextRune == ClientGetRune \/ ClientPeekRune

SpecRune == InitRune /\ [][NextRune]_vars

\* The lexer under a caller of its pull interface, on string literals ...
InitString == InitWith(UnterminatedLiterals \cup TerminatedLiterals)

SpecString == InitString /\ [][NextLex]_vars

\* ... and on block comments.
InitComment == InitWith(CommentInputs)

SpecComment == InitComment /\ [][NextLex]_vars

\* The comment filter under a caller that reads the runes of a text.
FilterInputs == CommentInputs \cup SlashInputs \cup BlankSamples

InitFilter == InitWith(FilterInputs)

SpecFilter == InitFilter /\ [][DrainRune]_vars

\* ----------------------------------------------------------------- claims

Stopped == status \in {"returned", "panic", "hung"}

Calls == client.hist

OnlyGetToken == \A i \in 1..Len(Calls) : Calls[i].op = "GetToken"

\* A call that returned a token.
Gave(c) == c.out = "return" /\ c.err = nil

Newlines(text) == Cardinality({i \in 1..Len(text) : text[i] = "\n"})

\* C1: for every finite input, neither GetToken/PeekToken nor Parse panics;
\* every failure comes back to the caller as an error value.
C1_NeverPanics == status # "panic"

\* C2: on every finite input Parse returns (with success or with an error)
\* and every call of the lexer returns: the parse is never inside a loop
\* that cannot end.
C2_NeverHangs == status # "hung"

\* C3: parsing `package main\nconst x = 1\n` makes Parse return no error,
\* with the package name "main" and one declaration, for x.
C3_ConstProgramAccepted ==
  (input = C3Program /\ obs.entry = "Parse" /\ Stopped) =>
    /\ status = "returned"
    /\ result = nil
    /\ loc.ast.packageName = Spell("main")
    /\ Len(loc.ast.topLevelDecls) = 1

\* C4: on an input of whitespace and comments only, repeated GetToken
\* delivers exactly one token, of kind end-of-source, with no other token and
\* no error before it.
C4_BlankInputOneEndOfSource ==
  (input \in BlankInputs /\ OnlyGetToken /\ Calls # <<>>) =>
    /\ Gave(Calls[1])
    /\ Calls[1].tok.tt = "TokenKindEndOfSource"
    /\ \A i \in 2..Len(Calls) : ~ Gave(Calls[i])

\* C5: on an input of whitespace and comments only, once the lexer has
\* consumed the whole input its line number is 1 plus the number of newline
\* characters of the input.
C5_LineCountsNewlinesOnce ==
  (input \in BlankInputs /\ Calls # <<>> /\ client.status = "ready") =>
    lx.pos.end.Line = 1 + Newlines(input)

\* C6: for n in {0, 1}, consecutive calls PeekToken(n) with no GetToken
\* between them return the same result, and every call after the first
\* leaves the whole lexer state unchanged.
C6_PeekTokenIdempotent ==
  \A i \in 2..Len(Calls) :
    ( /\ Calls[i - 1].op = "PeekToken"
      /\ Calls[i].op = "PeekToken"
      /\ Calls[i].ahead = Calls[i - 1].ahead
      /\ Calls[i].ahead \in {0, 1} ) =>
      /\ Calls[i].out = "return"
      /\ Calls[i].tok = Calls[i - 1].tok
      /\ Calls[i].err = Calls[i - 1].err
      /\ i = Len(Calls) => lx = client.before

\* The tokens the GetToken calls of a caller have delivered.
RECURSIVE Delivered(_)
Delivered(calls) ==
  IF calls = <<>> THEN <<>>
  ELSE IF Head(calls).op = "GetToken" /\ Gave(Head(calls))
       THEN <<Head(calls).tok>> \o Delivered(Tail(calls))
       ELSE Delivered(Tail(calls))

\* The first k tokens GetToken delivers to a caller that calls nothing but
\* GetToken and goes on after an error for as long as the lexer moves.
RECURSIVE FirstTokens(_, _)
FirstTokens(l, k) ==
  IF k = 0 THEN <<>>
  ELSE The({ IF t.out # "return" THEN <<>>
             ELSE IF t.err # nil THEN (IF t.l = l THEN <<>> ELSE FirstTokens(t.l, k))
             ELSE <<t.tok>> \o FirstTokens(t.l, k - 1)
           : t \in {GetToken(l)} })

\* C7: PeekToken never consumes and GetToken shifts the lookahead queue by
\* one: after PeekToken(0) gave t0 and PeekToken(1) gave t1 the next GetToken
\* gives t0 and a PeekToken(0) after it gives t1; and the tokens GetToken
\* delivers are the tokens it delivers with no PeekToken call in between.
C7_PeekTokenNeverConsumes ==
  /\ Delivered(Calls) = FirstTokens(NewLexer(input), Len(Delivered(Calls)))
  /\ \A i \in 1..(Len(Calls) - 2) :
       ( /\ Calls[i].op = "PeekToken" /\ Calls[i].ahead = 0 /\ Gave(Calls[i])
         /\ Calls[i + 1].op = "PeekToken" /\ Calls[i + 1].ahead = 1 /\ Gave(Calls[i + 1])
         /\ Calls[i + 2].op = "GetToken" ) =>
         /\ Gave(Calls[i + 2])
         /\ Calls[i + 2].tok = Calls[i].tok
         /\ ( /\ i + 3 <= Len(Calls)
              /\ Calls[i + 3].op = "PeekToken"
              /\ Calls[i + 3].ahead = 0 ) =>
              /\ Gave(Calls[i + 3])
              /\ Calls[i + 3].tok = Calls[i + 1].tok

\* PeekToken(0), PeekToken(1), GetToken, PeekToken(0) on an input with two
\* different tokens in front, and the GetToken has delivered the first.
C7_Witness ==
  /\ Len(Calls) = 4
  /\ Calls[1].op = "PeekToken" /\ Calls[1].ahead = 0 /\ Gave(Calls[1])
  /\ Calls[2].op = "PeekToken" /\ Calls[2].ahead = 1 /\ Gave(Calls[2])
  /\ Calls[3].op = "GetToken" /\ Calls[4].op = "PeekToken" /\ Calls[4].ahead = 0
  /\ Calls[1].tok # Calls[2].tok
  /\ Delivered(Calls) = <<Calls[1].tok>>

C8Expected ==
  << [tt |-> "TokenKindIdentifier",    strVal |-> <<"x">>, uintVal |-> 0],
     [tt |-> "TokenKindDeclareAssign", strVal |-> <<>>,    uintVal |-> 0],
     [tt |-> "TokenKindLiteralInt",    strVal |-> <<>>,    uintVal |-> 1],
     [tt |-> "TokenKindAdd",           strVal |-> <<>>,    uintVal |-> 0],
     [tt |-> "TokenKindLiteralInt",    strVal |-> <<>>,    uintVal |-> 2],
     [tt |-> "TokenKindEndOfSource",   strVal |-> <<>>,    uintVal |-> 0] >>

\* C8: comments contribute no tokens; `x := 1 + 2 // comment\n` yields
\* Identifier("x"), `:=`, UintLiteral(1), `+`, UintLiteral(2) and then the
\* end of source.
C8_CommentExampleTokens ==
  (input = C8Example /\ OnlyGetToken) =>
    /\ client.status = "ready"
    /\ \A i \in 1..Len(Calls) :
         i <= Len(C8Expected) =>
           /\ Gave(Calls[i])
           /\ Calls[i].tok.tt = C8Expected[i].tt
           /\ Calls[i].tok.strVal = C8Expected[i].strVal
           /\ Calls[i].tok.uintVal = C8Expected[i].uintVal

\* C9: the error Parse returns is the first error detected: once a lexer call
\* or a grammar check has failed no further token is consumed, and that same
\* error is what comes back.
C9_FirstErrorReturned ==
  /\ obs.firstErr # nil => obs.taken = obs.takenAtErr
  /\ status = "returned" => result = obs.firstErr

C10Receiver == ASTReceiver(NoSpan, <<"r">>, TRUE, <<"T">>)

\* C10: parsing `func (r *T) M() {}` succeeds and yields one FunctionDecl with
\* the receiver {name "r", pointer, base type "T"}, the name "M" and no
\* parameters; a Parameters production ends at its `)`, the empty list `()`
\* included.
C10_MethodParsed ==
  (input \in {C10Program, C10NoReceiver} /\ obs.entry = "parseTopLevelDecl" /\ Stopped) =>
    /\ status = "returned"
    /\ result = nil
    /\ Len(ret.asts) = 1
    /\ ret.asts[1].node = "ASTFunctionDecl"
    /\ ret.asts[1].name = <<"M">>
    /\ ret.asts[1].params = <<>>
    /\ input = C10Program =>
         [ret.asts[1].receiver EXCEPT !.pos = NoSpan] = C10Receiver

MismatchMessages ==
  { "there are more names here than there are values",
    "there are less names here than there are values" }

\* C11: a ConstSpec with two names and one value, `const a, b = 1`, makes the
\* parse fail with a length-mismatch diagnostic placed over the identifier
\* list (from the `a` at column 7 to the `b`), and no declaration comes back.
C11_ConstLengthMismatch ==
  (input = C11Program /\ obs.entry = "parseTopLevelDecl" /\ Stopped) =>
    /\ status = "returned"
    /\ result.msg \in MismatchMessages
    /\ result.pos.start = SrcLoc(1, 7)
    /\ result.pos.end.Line = 1
    /\ result.pos.end.Column \in {10, 11}
    /\ ret.asts = <<>>

\* A diagnostic made by the parser or the lexer for a construct of the
\* source, as opposed to nil, io.EOF and the error of a failed read.
IsDiagnostic(e) == e \notin {nil, EOF, ErrRead}

\* C12: when the input ends where the grammar still asks for tokens, Parse
\* returns a diagnostic for the missing construct: it does not report
\* success, does not pass on the bare end of input and does not crash.
C12_TruncatedInputDiagnosed ==
  (input \in TruncatedPrograms /\ obs.entry = "Parse" /\ Stopped) =>
    /\ status = "returned"
    /\ IsDiagnostic(result)

C14_StringBodyVerbatim ==
  \A quote \in Quotes, body \in StringBodies :
    (input = TerminatedLiteral(quote, body) /\ Calls # <<>> /\ Calls[1].op = "GetToken") =>
      /\ Gave(Calls[1])
      /\ Calls[1].tok.tt = "TokenKindLiteralString"
      /\ Calls[1].tok.strVal = body

\* The paths of the import requests sent so far.
SentPaths == [i \in 1..Len(sent) |-> sent[i].path]

IsPrefix(s, t) == Len(s) <= Len(t) /\ \A i \in 1..Len(s) : s[i] = t[i]

\* C15: for each ImportSpec of the source (single or in a group, with or
\* without an alias) one import request with the spec's path and the file
\* name goes to the coordinator: at every moment the requests sent are a
\* prefix of the source's import paths, and when Parse stops every one of
\* them has been sent.
C15_OneRequestPerImportSpec ==
  (input \in ImportPrograms /\ obs.entry = "Parse") =>
    /\ IsPrefix(SentPaths, ImportPaths(input))
    /\ \A i \in 1..Len(sent) : sent[i].file = filename
    /\ Stopped => SentPaths = ImportPaths(input)

\* The number of tokens of an import program up to the `;` that ends its
\* import declaration.
ImportEnd(text) ==
  CASE text = ImportSingle -> 6
    [] text = ImportAlias  -> 7
    [] text = ImportGroup  -> 12

\* C16: the parse never waits on the coordinator: with the requests of its
\* imports sent and not yet received by anyone, Parse goes on past the
\* import declaration (it takes the tokens up to the declaration's `;`) and
\* returns.
C16_ParsePassesImports ==
  (input \in ImportPrograms /\ obs.entry = "Parse" /\ Stopped) =>
    /\ status = "returned"
    /\ obs.taken >= ImportEnd(input)

\* C17: the character lookahead queue never holds more than 3 characters
\* and the token lookahead queue never more than 2 tokens, and no
\* PeekToken(n), n >= 0, goes to a slot beyond the capacity (which, in Go,
\* is the index-out-of-range panic of the caller).
C17_LookaheadWithinCapacity ==
  /\ lx.ncNextRuneCount <= ncNextRunesSize
  /\ lx.nextTokenCount <= nextTokensSize
  /\ client.status # "panic"

\* The payload shape a token kind asks for.
ShapeOfKind(kind) ==
  CASE kind \in {"TokenKindIdentifier", "TokenKindLiteralString"} -> "StringToken"
    [] kind \in {"TokenKindLiteralInt", "TokenKindLiteralRune"}   -> "UintToken"
    [] kind = "TokenKindLiteralFloat"                              -> "FloatToken"
    [] OTHER                                                      -> "SimpleToken"

\* The places of parseImportSpec that read a string payload with the type
\* assertion tok.(StringToken).
StringPayloadReads == {"parseImportSpec", "parseImportSpec_namedPath", "parseImportSpec_path"}

\* C18: the kind of a token fixes the shape of its payload: every token in
\* the lexer's lookahead queue has the shape of its kind, and the parser
\* never reads a string payload from a token of another shape (the type
\* assertion at those places never fails).
C18_PayloadMatchesKind ==
  /\ \A i \in 1..lx.nextTokenCount :
       lx.nextTokens[i].shape = ShapeOfKind(lx.nextTokens[i].tt)
  /\ ~ (status = "panic" /\ pc \in StringPayloadReads)

RECURSIVE Marks(_)
Marks(text) ==
  IF text = <<>> THEN 0
  ELSE (IF Head(text) = IoErrMark THEN 1 ELSE 0) + Marks(Tail(text))

\* C19: a call of GetToken or PeekToken during which a read of the stream
\* fails (with an error other than the end of input) returns that error as
\* it is, and no token.
C19_ReadErrorReturnedUnchanged ==
  (Calls # <<>> /\ Marks(lx.reader) < Marks(client.before.reader)) =>
    /\ Calls[Len(Calls)].out = "return"
    /\ Calls[Len(Calls)].err = ErrRead
    /\ Calls[Len(Calls)].tok = NilToken

\* C20: peekRune(n), n in 0..2, does not advance the position: a call that
\* returns leaves the lexer's line and column as they were, whether the
\* character was in the lookahead queue already or had to be read.
C20_PeekRuneKeepsPosition ==
  ( /\ Calls # <<>>
    /\ Calls[Len(Calls)].op = "peekRune"
    /\ Calls[Len(Calls)].out = "return" ) =>
    lx.pos.end = client.before.pos.end

\* A rune call that returned a rune.
RuneGave(c) == c.out = "return" /\ c.err = nil

\* The runes the getRune calls of a caller have delivered.
RECURSIVE DeliveredRunes(_)
DeliveredRunes(calls) ==
  IF calls = <<>> THEN <<>>
  ELSE IF Head(calls).op = "getRune" /\ RuneGave(Head(calls))
       THEN <<Head(calls).r>> \o DeliveredRunes(Tail(calls))
       ELSE DeliveredRunes(Tail(calls))

\* The first k runes getRune delivers to a caller that calls nothing but
\* getRune and goes on after an error for as long as the lexer moves.
RECURSIVE FirstRunes(_, _)
FirstRunes(l, k) ==
  IF k = 0 THEN <<>>
  ELSE The({ IF g.hang THEN <<>>
             ELSE IF g.err # nil THEN (IF g.l = l THEN <<>> ELSE FirstRunes(g.l, k))
             ELSE <<g.r>> \o FirstRunes(g.l, k - 1)
           : g \in {getRune(l)} })

FirstTokenSpan(text) ==
  CASE text = Source(<<"a", "b", " ", "c">>)           -> SrcSpan(SrcLoc(1, 1), SrcLoc(1, 3))
    [] text = Source(<<" ", " ", "a", "b", " ", "c">>) -> SrcSpan(SrcLoc(1, 3), SrcLoc(1, 5))
    [] text = Source(<<" ", "\n", " ", "1", "2", ";">>) -> SrcSpan(SrcLoc(2, 2), SrcLoc(2, 4))
    [] text = Source(<<"(", "a">>)                     -> SrcSpan(SrcLoc(1, 1), SrcLoc(1, 2))

\* C22: a token carries the span from the line and column (1-based) of its
\* first character to the position just past its last character, the
\* position moving once for each character consumed and not for characters
\* that were peeked.
C22_TokenSpanIsItsText ==
  (input \in PositionInputs /\ Calls # <<>> /\ Calls[1].op = "GetToken") =>
    /\ Gave(Calls[1])
    /\ Calls[1].tok.pos = FirstTokenSpan(input)

\* The text after the end of a block comment, text being what follows the
\* opening `/*`: the comment ends at the first `/` that comes right after a
\* `*` of the comment's inside.
RECURSIVE AfterComment(_, _)
AfterComment(text, afterStar) ==
  IF text = <<>> THEN <<>>
  ELSE IF Head(text) = "/" /\ afterStar THEN Tail(text)
  ELSE AfterComment(Tail(text), Head(text) = "*")

\* The letters a text begins with.
RECURSIVE LeadingWord(_)
LeadingWord(text) ==
  IF text = <<>> \/ ~ IsLetter(Head(text)) THEN <<>>
  ELSE <<Head(text)>> \o LeadingWord(Tail(text))

\* C23: a block comment ends at the first `/` that comes right after a `*`
\* read inside the comment (the `*` of the opening `/*` does not count, a
\* newline or another character between `*` and `/` cancels the close), and
\* what follows is tokenized as usual: when a word follows the comment, the
\* first token is that word.
C23_BlockCommentEndsAtFirstClose ==
  ( /\ input \in CommentInputs
    /\ LeadingWord(AfterComment(Tail(Tail(input)), FALSE)) # <<>>
    /\ Calls # <<>> /\ Calls[1].op = "GetToken" ) =>
    /\ Gave(Calls[1])
    /\ Calls[1].tok.tt = "TokenKindIdentifier"
    /\ Calls[1].tok.strVal = LeadingWord(AfterComment(Tail(Tail(input)), FALSE))

\* GetToken on `/*/*/b`, where the `/` after the opening `/*` does not close
\* the comment, has delivered b.
C23_Witness ==
  /\ input = BlockComment(<<"/">>) \o <<"b">>
  /\ Len(Calls) = 1
  /\ Calls[1].op = "GetToken"
  /\ Calls[1].tok.strVal = <<"b">>

\* What is left of a text after the newline that ends a line comment, the
\* newline included.
RECURSIVE FromNewline(_)
FromNewline(text) ==
  IF text = <<>> \/ Head(text) = "\n" THEN text ELSE FromNewline(Tail(text))

\* A text with its comments blanked: in a block comment a newline stays a
\* newline and every other character, delimiters included, becomes a space;
\* a line comment goes up to its newline; outside comments every character
\* stays, a `/` that starts no comment too.
RECURSIVE Blanked(_, _, _)
Blanked(text, inComment, afterStar) ==
  IF text = <<>> THEN <<>>
  ELSE IF inComment
  THEN CASE Head(text) = "\n" -> <<"\n">> \o Blanked(Tail(text), TRUE, FALSE)
         [] Head(text) = "*"  -> <<" ">> \o Blanked(Tail(text), TRUE, TRUE)
         [] Head(text) = "/"  -> <<" ">> \o Blanked(Tail(text), ~ afterStar, FALSE)
         [] OTHER             -> <<" ">> \o Blanked(Tail(text), TRUE, FALSE)
  ELSE IF Head(text) = "/" /\ Len(text) > 1 /\ text[2] = "*"
  THEN <<" ", " ">> \o Blanked(Tail(Tail(text)), TRUE, FALSE)
  ELSE IF Head(text) = "/" /\ Len(text) > 1 /\ text[2] = "/"
  THEN Blanked(FromNewline(text), FALSE, FALSE)
  ELSE <<Head(text)>> \o Blanked(Tail(text), FALSE, FALSE)

\* The position a lexer is at after getRune has read all it can.
RECURSIVE EndPosition(_)
EndPosition(l) ==
  The({ IF g.hang \/ g.err # nil THEN g.l.pos.end ELSE EndPosition(g.l)
      : g \in {getRune(l)} })

\* The caller has read the runes up to the end of the input.
Drained == Calls # <<>> /\ Calls[Len(Calls)].err = EOF

\* C24: the comment filter keeps the length of a block comment: a comment
\* of k characters comes out as k characters, a newline for each newline
\* and a space for each other character, so that what follows it stands at
\* the column it would have with spaces in place of the comment; a `/` that
\* starts no comment comes out as it is and the character after it is not
\* lost.
C24_BlockCommentKeepsLength ==
  Drained =>
    /\ DeliveredRunes(Calls) = Blanked(input, FALSE, FALSE)
    /\ Len(Blanked(input, FALSE, FALSE)) = Len(input) =>
         lx.pos.end = EndPosition(NewLexer(Blanked(input, FALSE, FALSE)))

\* The runes of `/* a\nb */` have been read: 8 spaces and a newline in the
\* place of the 9 characters of the comment.
C24_Witness ==
  /\ input = Source(<<"/*", " ", "a", "\n", "b", " ", "*/">>)
  /\ Drained
  /\ DeliveredRunes(Calls) = <<" ", " ", " ", " ", "\n", " ", " ", " ", " ">>

\* The spellings of the operators that start with `<`, `+` or `(`, with
\* their kinds.
OperatorSpellings ==
  { [text |-> <<"<">>,           kind |-> "TokenKindLess"],
    [text |-> <<"<", "=">>,      kind |-> "TokenKindLessEqual"],
    [text |-> <<"<", "-">>,      kind |-> "TokenKindChannelArrow"],
    [text |-> <<"<", "<">>,      kind |-> "TokenKindShiftLeft"],
    [text |-> <<"<", "<", "=">>, kind |-> "TokenKindShiftLeftAssign"],
    [text |-> <<"+">>,           kind |-> "TokenKindAdd"],
    [text |-> <<"+", "=">>,      kind |-> "TokenKindAddAssign"],
    [text |-> <<"+", "+">>,      kind |-> "TokenKindIncrement"],
    [text |-> <<"(">>,           kind |-> "TokenKindOpenBracket"] }

\* The longest operator spelling that text starts with.
LongestOperator(text) ==
  CHOOSE s \in OperatorSpellings :
    /\ IsPrefix(s.text, text)
    /\ \A t \in OperatorSpellings : IsPrefix(t.text, text) => Len(t.text) <= Len(s.text)

\* C25: on a text that starts with an operator, the first GetToken
\* delivers the kind of the longest operator spelling the text starts with
\* and consumes that spelling and no more: when the letter a comes right
\* after the spelling, a second GetToken delivers the identifier a.
C25_OperatorLongestMatch ==
  ( input \in OperatorInputs /\ Calls # <<>> /\ Calls[1].op = "GetToken" ) =>
    /\ Gave(Calls[1])
    /\ Calls[1].tok.tt = LongestOperator(input).kind
    /\ ( /\ Len(Calls) >= 2 /\ Calls[2].op = "GetToken"
         /\ Len(input) > Len(LongestOperator(input).text)
         /\ input[Len(LongestOperator(input).text) + 1] = "a" ) =>
           /\ Gave(Calls[2])
           /\ Calls[2].tok.tt = "TokenKindIdentifier"
           /\ Calls[2].tok.strVal = <<"a">>

\* The receiver each form stands for: bound name, pointer flag, base type.
ReceiverOf(text) ==
  CASE text = ReceiverType        -> ASTReceiver(NoSpan, <<>>, FALSE, <<"T">>)
    [] text = ReceiverNameType    -> ASTReceiver(NoSpan, <<"r">>, FALSE, <<"T">>)
    [] text = ReceiverNamePointer -> ASTReceiver(NoSpan, <<"r">>, TRUE, <<"T">>)
    [] text = ReceiverPointer     -> ASTReceiver(NoSpan, <<>>, TRUE, <<"T">>)

\* C26: parseReceiver accepts each of `(T)`, `(r T)`, `(r *T)` and `(*T)`,
\* with the bound name empty when there is one identifier, the pointer flag
\* set exactly when `*` stands before the base type, and the tokens
\* consumed through the closing `)`: the next token is the method name.
C26_ReceiverForms ==
  (input \in ReceiverForms /\ obs.entry = "parseReceiver" /\ Stopped) =>
    /\ status = "returned"
    /\ result = nil
    /\ [ret.ast EXCEPT !.pos = NoSpan] = ReceiverOf(input)
    /\ Gave(PeekToken(lx, 0))
    /\ PeekToken(lx, 0).tok.strVal = <<"M">>

\* The names a declaration `type ( T int ; U int ; )` declares.
RECURSIVE DeclaredNames(_)
DeclaredNames(asts) ==
  IF asts = <<>> THEN <<>> ELSE <<Head(asts).ident.name>> \o DeclaredNames(Tail(asts))

\* C27: a declaration with a parenthesized group of k >= 0 specs, each
\* followed by a semicolon, yields the nodes of the k specs in source order,
\* and the group is consumed from `(` through `)`: the next token is the
\* semicolon after the declaration.
C27_GroupYieldsAllSpecs ==
  \A names \in GroupNames : \A verb \in {"const", "type", "var"} :
    ( input = GroupOf(verb, names) /\ input \in GroupInputs
      /\ obs.entry = "parseTopLevelDecl" /\ Stopped ) =>
      /\ status = "returned"
      /\ result = nil
      /\ DeclaredNames(ret.asts) = [i \in 1..Len(names) |-> Spell(names[i])]
      /\ Gave(PeekToken(lx, 0))
      /\ PeekToken(lx, 0).tok.tt = "TokenKindSemicolon"

\* C28: a source file of the package clause, zero or more import
\* declarations each with its semicolon, and declarations each with its
\* semicolon, is accepted: the first token that is not `import` starts the
\* declarations, and the end of the source ends them with success.
C28_ImportsThenDeclarationsAccepted ==
  (input \in ImportPrograms \cup {NoImportProgram} /\ obs.entry = "Parse" /\ Stopped) =>
    /\ status = "returned"
    /\ result = nil
    /\ DeclaredNames(loc.ast.topLevelDecls) = <<<<"T">>>>

\* C29: `var a, b T` is accepted and yields a declaration for a and one for
\* b, each with the type T and no initializer; `var a`, with neither a type
\* nor `=`, fails with a diagnostic.
C29_VarSpecTypeOrInitializer ==
  /\ (input = VarTyped /\ obs.entry = "parseTopLevelDecl" /\ Stopped) =>
       /\ status = "returned"
       /\ result = nil
       /\ DeclaredNames(ret.asts) = <<<<"a">>, <<"b">>>>
       /\ \A i \in 1..Len(ret.asts) : ret.asts[i].typ.name = <<"T">>
  /\ (input = VarBare /\ obs.entry = "parseTopLevelDecl" /\ Stopped) =>
       /\ status = "returned"
       /\ IsDiagnostic(result)

\* C30: in a ConstSpec or VarSpec the token of the single character `=`
\* introduces the expression list: `const a = 1`, `var a = 1`, and both
\* with the type int before the `=`, are accepted and yield the one
\* declaration for a; `const a int`, with a type and no `=`, fails with a
\* diagnostic.
C30_AssignIntroducesExpressions ==
  /\ (input \in InitializedSpecs /\ obs.entry = "parseTopLevelDecl" /\ Stopped) =>
       /\ status = "returned"
       /\ result = nil
       /\ DeclaredNames(ret.asts) = <<<<"a">>>>
  /\ (input = ConstTypedBare /\ obs.entry = "parseTopLevelDecl" /\ Stopped) =>
       /\ status = "returned"
       /\ IsDiagnostic(result)
       /\ ret.asts = <<>>

\* C31: the tokens GetToken hands to the parser are the tokens of the
\* source, each once and in order, and no GetToken whose result is dropped
\* removes a token that no PeekToken has shown to the parser before.
C31_NoTokenRemovedUnexamined ==
  /\ obs.handed = FirstTokens(NewLexer(input), Len(obs.handed))
  /\ ~ obs.blind

====
